---------------------------- MODULE Spec2Model ----------------------------
(***************************************************************************)
(* AI model strategy and fallback engine of the chat assistant:            *)
(*   - AIModelStrategy adapters (GeminiStrategy, HuggingFaceStrategy) with *)
(*     their daily quota and sliding sub-window rate limit,                *)
(*   - ModelManager: registry, default model and generate_with_fallback,   *)
(*   - AdvancedAIService: the orchestrator on top of the registry, its     *)
(*     style injection and its response post-processing,                   *)
(*   - FeedbackManager: the feedback records and the performance score of  *)
(*     each (backend, style) pair.                                         *)
(*                                                                         *)
(* Time is the value of time.time() in whole seconds.  The quotas of the   *)
(* adapters (1500/1000 requests per day, 15 per minute, 100 per hour) are  *)
(* scaled down to small numbers; the windows (86400 s, 3600 s, 60 s) keep  *)
(* their values.                                                           *)
(***************************************************************************)
EXTENDS Integers, Sequences, FiniteSets, TLC

VARIABLES
    now,            \* time.time()
    ticks,          \* number of clock advances so far (bounded)
    strategy,       \* name -> adapter state (the fields of AIModelStrategy)
    lastReset,      \* history: name -> time the daily counter was last (re)set
    lastOp,         \* history: the operation that produced this state
    models,         \* ModelManager.models: the registered names, in registration order
    default_model,  \* ModelManager.default_model
    pc,             \* position of the generate_with_fallback call in progress
    call,           \* its arguments and locals (preferred_model, models_to_try, ...)
    trace,          \* history: what happened to each candidate considered so far
    invoked,        \* history: the candidates whose generate_response was invoked
    response,       \* the ModelResponse the call returned
    thread,         \* concurrent generate_response calls: thread -> position
    overlapped,     \* history: two calls on the adapter have overlapped
    usage_analytics,\* AdvancedAIService.usage_analytics
    svc,            \* history: the last AdvancedAIService.generate_response call
    styled,         \* history: the last _apply_conversation_style call
    processed,      \* history: the last _post_process_response call
    message_feedback,   \* table message_feedback: the committed FeedbackRecords
    model_performance,  \* table model_performance: (ai_model, style) -> row
    fb,             \* the add_message_feedback call in progress, and the last read
    insights,       \* history: the last generate_learning_insights call
    writers,        \* concurrent add_message_feedback calls: thread -> position
    conversations,  \* table conversations: the rows, as [id, session_id]
    messages_table, \* table messages: the rows, in rowid order
    hist,           \* the ChatHistoryService calls in progress, by thread
    model_cache,    \* LearningService.model_cache: cache key -> selection
    cache_timestamp,\* LearningService.cache_timestamp
    optimal,        \* history: the last get_optimal_model call
    proxy           \* history: the last LLMProxy.send_message call

adapterVars == <<strategy, lastReset>>
managerVars == <<models, default_model, pc, call, trace, invoked, response>>
concVars == <<thread, overlapped>>
serviceVars == <<usage_analytics, svc>>
textVars == <<styled, processed>>
feedbackVars == <<message_feedback, model_performance, fb, insights, writers>>
historyVars == <<conversations, messages_table, hist>>
learningVars == <<model_cache, cache_timestamp, optimal>>
proxyVars == <<proxy>>
clientVars == <<historyVars, learningVars, proxyVars>>
vars == <<now, ticks, strategy, lastReset, lastOp, models, default_model, pc,
          call, trace, invoked, response, thread, overlapped, usage_analytics, svc,
          styled, processed, message_feedback, model_performance, fb, insights,
          writers,
          conversations, messages_table, hist, model_cache, cache_timestamp,
          optimal, proxy>>

-----------------------------------------------------------------------------
(* Bounds of the model *)

\* scaled ModelConfig.free_tier_limit (requests per day)
DailyLimit == 2
\* scaled GeminiStrategy.requests_per_minute
RequestsPerMinute == 1
\* scaled HuggingFaceStrategy.requests_per_hour
RequestsPerHour == 1
\* clock advances explored
MaxTicks == 2
\* threads calling generate_response on one adapter
NThreads == 2
\* AdvancedAIService.generate_response calls explored
MaxServiceCalls == 3

-----------------------------------------------------------------------------
(* Program constants *)

Day == 86400
Hour == 3600
Minute == 60

None == "None"

Gemini == "Gemini Pro"
DialoGPT == "DialoGPT Large"
BlenderBot == "BlenderBot 400M"

\* the adapter classes: GeminiStrategy and HuggingFaceStrategy
Adapters == {Gemini, DialoGPT}

\* the adapters that AdvancedAIService._register_models creates
Backends == {Gemini, DialoGPT, BlenderBot}

\* a name no adapter has
Unknown == "unknown-model"

FreeTierLimit(b) == DailyLimit

SubWindow(b) == IF b = Gemini THEN Minute ELSE Hour

SubWindowLimit(b) == IF b = Gemini THEN RequestsPerMinute ELSE RequestsPerHour

\* the process starts long after the epoch: time.time() > 86400
StartTime == Day + 1

\* how far the clock may jump between two operations
TimeSteps == {Minute \div 2, Hour, (Day \div 2) + 1, Day + 1}

\* what the provider does with a request that was sent
ProviderOutcomes == {"ok", "http_error", "timeout"}

-----------------------------------------------------------------------------
(* AIModelStrategy *)

NewStrategy(b) ==
    [usage_count |-> 0,
     last_request_time |-> 0,
     rate_limit_remaining |-> FreeTierLimit(b),
     request_timestamps |-> <<>>]

ModelResponse(success, model, err) ==
    [success |-> success, model_used |-> model, error_message |-> err]

\* a check that resets the quota but forgets the usage counter
BaseCheckRateLimitKeepsUsage(a, b, t) ==
    LET a1 == IF t - a.last_request_time > Day
              THEN [a EXCEPT !.rate_limit_remaining = FreeTierLimit(b)]
              ELSE a
    IN  [state |-> a1, ok |-> a1.rate_limit_remaining > 0]

\* a check that lets a request through when nothing remains
BaseCheckRateLimitOffByOne(a, b, t) ==
    LET a1 == IF t - a.last_request_time > Day
              THEN [a EXCEPT !.rate_limit_remaining = FreeTierLimit(b),
                             !.usage_count = 0]
              ELSE a
    IN  [state |-> a1, ok |-> a1.rate_limit_remaining >= 0]

\* AIModelStrategy.check_rate_limit: lazy daily reset, then remaining > 0
BaseCheckRateLimit(a, b, t) ==
    LET a1 == IF t - a.last_request_time > Day
              THEN [a EXCEPT !.rate_limit_remaining = FreeTierLimit(b),
                             !.usage_count = 0]
              ELSE a
    IN  [state |-> a1, ok |-> a1.rate_limit_remaining > 0]

\* GeminiStrategy / HuggingFaceStrategy.check_rate_limit
CheckRateLimit(a, b, t) ==
    LET base == BaseCheckRateLimit(a, b, t)
    IN  IF ~base.ok
        THEN [state |-> base.state, ok |-> FALSE]
        ELSE LET InWindow(ts) == t - ts < SubWindow(b)
                 pruned == SelectSeq(base.state.request_timestamps, InWindow)
             IN  [state |-> [base.state EXCEPT !.request_timestamps = pruned],
                  ok |-> Len(pruned) < SubWindowLimit(b)]

\* AIModelStrategy.update_usage
UpdateUsage(a, t) ==
    [a EXCEPT !.usage_count = @ + 1,
              !.rate_limit_remaining = @ - 1,
              !.last_request_time = t]

\* self.request_timestamps.append(time.time()); self.update_usage()
RecordRequest(a, t) ==
    UpdateUsage([a EXCEPT !.request_timestamps = Append(@, t)], t)

\* a generate_response that sends the request without asking check_rate_limit
GenerateResponseUnchecked(a, b, t, outcome) ==
    [state |-> RecordRequest(a, t), sent |-> TRUE,
     response |-> IF outcome = "ok"
                  THEN ModelResponse(TRUE, b, None)
                  ELSE ModelResponse(FALSE, b, "API error")]

\* a generate_response that charges the request before it checks the limit
GenerateResponseChargesFirst(a, b, t, outcome) ==
    LET chk == CheckRateLimit(RecordRequest(a, t), b, t)
    IN  IF ~chk.ok
        THEN [state |-> chk.state, sent |-> FALSE,
              response |-> ModelResponse(FALSE, b, "Rate limit exceeded")]
        ELSE [state |-> chk.state, sent |-> TRUE,
              response |-> IF outcome = "ok"
                           THEN ModelResponse(TRUE, b, None)
                           ELSE ModelResponse(FALSE, b, "API error")]

\* GeminiStrategy / HuggingFaceStrategy.generate_response.
\* sent: whether requests.post was reached.
GenerateResponse(a, b, t, outcome) ==
    LET chk == CheckRateLimit(a, b, t)
    IN  IF ~chk.ok
        THEN [state |-> chk.state, sent |-> FALSE,
              response |-> ModelResponse(FALSE, b, "Rate limit exceeded")]
        ELSE IF outcome = "timeout"
        THEN \* requests.Timeout -> handle_error, before the usage update
             [state |-> chk.state, sent |-> TRUE,
              response |-> ModelResponse(FALSE, b, "request timed out")]
        ELSE [state |-> RecordRequest(chk.state, t), sent |-> TRUE,
              response |-> IF outcome = "ok"
                           THEN ModelResponse(TRUE, b, None)
                           ELSE ModelResponse(FALSE, b, "API error")]

\* the time of the reset that check_rate_limit performs at t, if it performs one
ResetTime(a, old, t) == IF t - a.last_request_time > Day THEN t ELSE old

NoOp ==
    [op |-> "init", b |-> None, arg |-> None, ok |-> FALSE, sent |-> FALSE,
     err |-> None, stale |-> FALSE, overdue |-> FALSE, limited |-> FALSE,
     pre |-> NewStrategy(Gemini)]

\* an operation on adapter b, with what was true of b when it started
AdapterOp(name, b, ok, sent, err) ==
    [op |-> name, b |-> b, arg |-> None, ok |-> ok, sent |-> sent, err |-> err,
     stale |-> now - strategy[b].last_request_time > Day,
     overdue |-> now - lastReset[b] > Day,
     limited |-> ~CheckRateLimit(strategy[b], b, now).ok,
     pre |-> strategy[b]]

\* an operation on the registry
ManagerOp(name, b, arg, ok) ==
    [NoOp EXCEPT !.op = name, !.b = b, !.arg = arg, !.ok = ok]

-----------------------------------------------------------------------------
(* ModelManager *)

Range(s) == {s[i] : i \in 1..Len(s)}

Contains(s, x) == \E i \in 1..Len(s) : s[i] = x

\* self.models[model.config.name] = model: a dict keeps the first insertion's place
RegisterName(registered, name) ==
    IF Contains(registered, name) THEN registered ELSE Append(registered, name)

\* a register_model that makes every registered model the default
RegisterDefaultAlways(dflt, name, is_default) == name

\* if is_default or self.default_model is None: self.default_model = name
RegisterDefault(dflt, name, is_default) ==
    IF is_default \/ dflt = None THEN name ELSE dflt

\* AdvancedAIService.set_preferred_model
SetPreferred(registered, dflt, name) ==
    IF Contains(registered, name)
    THEN [default_model |-> name, ok |-> TRUE]
    ELSE [default_model |-> dflt, ok |-> FALSE]

\* ModelManager.get_available_models: validate_configuration, then (only when
\* valid) check_rate_limit, on every registered model in registration order
AvailableModels(strats, registered, valid, t) ==
    LET Avail(n) == valid[n] /\ CheckRateLimit(strats[n], n, t).ok
    IN  [state |-> [n \in DOMAIN strats |->
                        IF Contains(registered, n) /\ valid[n]
                        THEN CheckRateLimit(strats[n], n, t).state
                        ELSE strats[n]],
         names |-> SelectSeq(registered, Avail)]

\* an order that puts the default before the preferred model
CandidateOrderDefaultFirst(preferred, dflt, registered, available) ==
    LET first == IF dflt # None THEN <<dflt>> ELSE <<>>
        second == IF preferred # None /\ Contains(registered, preferred)
                     /\ ~Contains(first, preferred)
                  THEN Append(first, preferred) ELSE first
        Other(n) == ~Contains(second, n)
    IN  second \o SelectSeq(available, Other)

\* generate_with_fallback: the order in which the models are tried
CandidateOrder(preferred, dflt, registered, available) ==
    LET first == IF preferred # None /\ Contains(registered, preferred)
                 THEN <<preferred>> ELSE <<>>
        second == IF dflt # None /\ ~Contains(first, dflt)
                  THEN Append(first, dflt) ELSE first
        Other(n) == ~Contains(second, n)
    IN  second \o SelectSeq(available, Other)

AllFailed ==
    ModelResponse(FALSE, "none", "All available AI models failed or are rate limited")

NoResponse == ModelResponse(FALSE, None, None)

\* a loop body that does not ask check_rate_limit before generate_response
TryCandidateIgnoresLimit(a, b, t, valid, outcome) ==
    IF ~valid
    THEN [state |-> a, invoked |-> FALSE, sent |-> FALSE, stop |-> FALSE,
          response |-> NoResponse]
    ELSE IF outcome = "raises"
    THEN [state |-> a, invoked |-> TRUE, sent |-> FALSE,
          stop |-> FALSE, response |-> NoResponse]
    ELSE LET gen == GenerateResponse(a, b, t, outcome)
         IN  [state |-> gen.state, invoked |-> TRUE, sent |-> gen.sent,
              stop |-> gen.response.success, response |-> gen.response]

\* a loop body in which an exception of generate_response ends the call
TryCandidateRaiseAborts(a, b, t, valid, outcome) ==
    IF ~valid
    THEN [state |-> a, invoked |-> FALSE, sent |-> FALSE, stop |-> FALSE,
          response |-> NoResponse]
    ELSE LET chk == CheckRateLimit(a, b, t)
         IN  IF ~chk.ok
             THEN [state |-> chk.state, invoked |-> FALSE, sent |-> FALSE,
                   stop |-> FALSE, response |-> NoResponse]
             ELSE IF outcome = "raises"
             THEN [state |-> chk.state, invoked |-> TRUE, sent |-> FALSE,
                   stop |-> TRUE, response |-> AllFailed]
             ELSE LET gen == GenerateResponse(chk.state, b, t, outcome)
                  IN  [state |-> gen.state, invoked |-> TRUE, sent |-> gen.sent,
                       stop |-> gen.response.success, response |-> gen.response]

\* generate_with_fallback: the body of the loop for one candidate b.
\* valid: what validate_configuration returns; outcome: what generate_response
\* meets ("raises": it raises an exception).
\* invoked: generate_response was called; stop: the loop returns `response`.
TryCandidate(a, b, t, valid, outcome) ==
    IF ~valid
    THEN [state |-> a, invoked |-> FALSE, sent |-> FALSE, stop |-> FALSE,
          response |-> NoResponse]
    ELSE LET chk == CheckRateLimit(a, b, t)
         IN  IF ~chk.ok
             THEN [state |-> chk.state, invoked |-> FALSE, sent |-> FALSE,
                   stop |-> FALSE, response |-> NoResponse]
             ELSE IF outcome = "raises"
             THEN [state |-> chk.state, invoked |-> TRUE, sent |-> FALSE,
                   stop |-> FALSE, response |-> NoResponse]
             ELSE LET gen == GenerateResponse(chk.state, b, t, outcome)
                  IN  [state |-> gen.state, invoked |-> TRUE, sent |-> gen.sent,
                       stop |-> gen.response.success, response |-> gen.response]

NoCall ==
    [preferred_model |-> None, models_to_try |-> <<>>, idx |-> 0,
     reliable |-> None, available |-> {}, usable |-> FALSE]

-----------------------------------------------------------------------------
(* AdvancedAIService *)

Styles == {"friendly", "professional", "creative", "analytical", "casual", "helpful"}

\* conversation_styles[style]['temperature'], in tenths
StyleTemperature(style) ==
    CASE style = "friendly" -> 8
      [] style = "professional" -> 6
      [] style = "creative" -> 9
      [] style = "analytical" -> 5
      [] style = "casual" -> 7
      [] style = "helpful" -> 7

\* **kwargs of generate_response: empty, or a temperature override (in tenths)
NoKwargs == [k \in {} |-> 0]

KwargsChoices == {NoKwargs} \cup {[k \in {"temperature"} |-> t] : t \in {3, 7}}

\* what generate_with_fallback does when it is called: it returns the response
\* of a backend, returns the terminal failure, or raises
RegistryOutcomes ==
    {[kind |-> "served", model |-> b] : b \in Backends}
        \cup {[kind |-> "all_failed", model |-> "none"],
              [kind |-> "raises", model |-> "none"]}

ServiceError == ModelResponse(FALSE, "none", "Advanced AI service error")

\* generate_with_fallback(messages=..., session_id=..., preferred_model=...,
\* temperature=temperature, **kwargs): a keyword given twice is a TypeError
KeywordsBind(kwargs) ==
    DOMAIN kwargs \cap {"messages", "session_id", "preferred_model", "temperature"} = {}

\* elapsed wall-clock times of a generate_response call (time.time() - start_time)
ElapsedChoices == {1, 2}

RECURSIVE GCD(_, _)
GCD(a, b) == IF b = 0 THEN a ELSE GCD(b, a % b)

\* a (non-negative) float as the exact fraction num/den in lowest terms
Fraction(num, den) ==
    LET g == GCD(num, den) IN [num |-> num \div g, den |-> den \div g]

Zero == Fraction(0, 1)

\* (current_avg * (total_requests - 1) + total_time) / total_requests
OnlineMean(current_avg, total_requests, total_time) ==
    Fraction(current_avg.num * (total_requests - 1) + total_time * current_avg.den,
             current_avg.den * total_requests)

\* the try block of generate_response (lines 166-209), entered with the
\* analytics ua.  passed: the temperatures generate_with_fallback was invoked
\* with; excepted: an exception ended the block, with the analytics as they
\* were at that point.
ServiceTry(ua, style, kwargs, reg, elapsed) ==
    LET ua1 == [ua EXCEPT !.total_requests = @ + 1]
        temperature == IF "temperature" \in DOMAIN kwargs
                       THEN kwargs.temperature ELSE StyleTemperature(style)
        timed(a) == [a EXCEPT !.average_response_time =
                        OnlineMean(@, a.total_requests, elapsed)]
    IN  IF ~KeywordsBind(kwargs)
        THEN [analytics |-> ua1, passed |-> <<>>, response |-> NoResponse,
              raised |-> TRUE, excepted |-> TRUE]
        ELSE IF reg.kind = "raises"
        THEN [analytics |-> ua1, passed |-> <<temperature>>,
              response |-> NoResponse, raised |-> TRUE, excepted |-> TRUE]
        ELSE IF reg.kind = "served"
        THEN [analytics |-> timed([ua1 EXCEPT !.successful_requests = @ + 1]),
              passed |-> <<temperature>>,
              response |-> ModelResponse(TRUE, reg.model, None),
              raised |-> FALSE, excepted |-> FALSE]
        ELSE [analytics |-> timed([ua1 EXCEPT !.failed_requests = @ + 1]),
              passed |-> <<temperature>>,
              response |-> AllFailed, raised |-> FALSE, excepted |-> FALSE]

\* mutant: the handler catches only the errors of the registry's providers, so
\* that a TypeError or an exception of generate_with_fallback leaves the method
ServiceGenerateResponseNarrowExcept(ua, style, kwargs, reg, elapsed) ==
    ServiceTry(ua, style, kwargs, reg, elapsed)

\* mutant: the except branch does not count the request as failed
ServiceGenerateResponseUncountedError(ua, style, kwargs, reg, elapsed) ==
    LET r == ServiceTry(ua, style, kwargs, reg, elapsed)
    IN  IF r.excepted
        THEN [r EXCEPT !.response = ServiceError, !.raised = FALSE]
        ELSE r

\* AdvancedAIService.generate_response: the try block, and the except branch
\* (lines 211-221) when an exception ended it.
\* raised: an exception left the method.
ServiceGenerateResponse(ua, style, kwargs, reg, elapsed) ==
    LET r == ServiceTry(ua, style, kwargs, reg, elapsed)
    IN  IF r.excepted
        THEN [r EXCEPT !.analytics.failed_requests = @ + 1,
                       !.response = ServiceError,
                       !.raised = FALSE]
        ELSE r

\* history of the calls made on the service: n calls, of which `successes`
\* returned success, with elapsed times adding up to elapsed_sum
NoServiceCall ==
    [called |-> FALSE, style |-> "helpful", kwargs |-> NoKwargs, passed |-> <<>>,
     registry |-> [kind |-> "all_failed", model |-> "none"],
     response |-> NoResponse, raised |-> FALSE, excepted |-> FALSE,
     n |-> 0, successes |-> 0, elapsed_sum |-> 0]

NoService ==
    /\ usage_analytics = [total_requests |-> 0, successful_requests |-> 0,
                          failed_requests |-> 0, average_response_time |-> Zero]
    /\ svc = NoServiceCall

-----------------------------------------------------------------------------
(* Conversation styles: the system prompt injected into the messages *)

\* longest conversation given to _apply_conversation_style
MaxTurns == 3

\* conversation_styles[style]['prompt_prefix']
PromptPrefix(style) ==
    CASE style = "friendly" -> "You are a friendly and warm AI assistant. ..."
      [] style = "professional" -> "You are a professional AI assistant. ..."
      [] style = "creative" -> "You are a creative AI assistant. ..."
      [] style = "analytical" -> "You are an analytical AI assistant. ..."
      [] style = "casual" -> "You are a casual AI assistant. ..."
      [] style = "helpful" -> "You are a helpful AI assistant focused on providing practical solutions. ..."

\* the turns a caller sends: {"role": ..., "content": ...}
Turns == [role : {"user", "assistant"}, content : {"hi", "ok"}]

MessageLists == UNION {[1..n -> Turns] : n \in 0..MaxTurns}

\* mutant: the system prompt is injected on every call
ApplyConversationStyleEveryTurn(messages, style) ==
    IF messages = <<>>
    THEN messages
    ELSE <<[role |-> "system", content |-> PromptPrefix(style)]>> \o messages

\* AdvancedAIService._apply_conversation_style
ApplyConversationStyle(messages, style) ==
    IF messages = <<>>
    THEN messages
    ELSE IF Len(messages) <= 1
    THEN <<[role |-> "system", content |-> PromptPrefix(style)]>> \o messages
    ELSE messages

NoStyled == [called |-> FALSE, messages |-> <<>>, style |-> "helpful", result |-> <<>>]

NoProcessed ==
    [called |-> FALSE, content |-> <<>>, style |-> "helpful",
     first |-> "I hope this helps!", second |-> "I hope this helps!",
     once |-> <<>>, twice |-> <<>>]

NoText ==
    /\ styled = NoStyled
    /\ processed = NoProcessed

-----------------------------------------------------------------------------
(* Response post-processing.  A content string is a sequence of pieces of *)
(* text: words, separators, and the closers the service appends.          *)

\* longest content (in pieces) given to _post_process_response
MaxContentLen == 3

\* len(content) > 50 in _add_friendly_touches
FriendlyMinLength == 50
\* len(content) > 100 in _enhance_creativity
CreativeMinLength == 100

\* friendly_additions
FriendlyAdditions ==
    {"I hope this helps!", "Feel free to ask if you need more clarification!",
     "I'm here to help!", "Let me know if you have other questions!"}

CreativeAddition == "Feel free to explore creative possibilities with this!"

\* the pieces a provider's content is made of: the leaked prompt opening, a
\* short word, a run of 101 letters, a casual word, and the separators
InputPieces == {"You are", "hi", "long", "yeah", "\n", ".", " "}

Contents == UNION {[1..n -> InputPieces] : n \in 0..MaxContentLen}

\* len() of a piece, in characters
Width(p) ==
    CASE p = "You are" -> 7
      [] p = "hi" -> 2
      [] p = "long" -> 101
      [] p = "yeah" -> 4
      [] p = "yes" -> 3
      [] p = "I hope this helps!" -> 18
      [] p = "Feel free to ask if you need more clarification!" -> 48
      [] p = "I'm here to help!" -> 17
      [] p = "Let me know if you have other questions!" -> 40
      [] p = CreativeAddition -> 54
      [] OTHER -> 1

RECURSIVE StrLen(_)
StrLen(content) ==
    IF content = <<>> THEN 0 ELSE Width(Head(content)) + StrLen(Tail(content))

\* str.lower() of a piece
Lower(p) ==
    CASE p = "You are" -> "you are"
      [] p = "I hope this helps!" -> "i hope this helps!"
      [] p = "Feel free to ask if you need more clarification!"
            -> "feel free to ask if you need more clarification!"
      [] p = "I'm here to help!" -> "i'm here to help!"
      [] p = "Let me know if you have other questions!"
            -> "let me know if you have other questions!"
      [] p = CreativeAddition
            -> "feel free to explore creative possibilities with this!"
      [] OTHER -> p

LowerAll(content) == [i \in 1..Len(content) |-> Lower(content[i])]

Whitespace == {" ", "\n"}

RECURSIVE LStrip(_)
LStrip(content) ==
    IF content # <<>> /\ Head(content) \in Whitespace
    THEN LStrip(Tail(content)) ELSE content

RECURSIVE RStrip(_)
RStrip(content) ==
    IF content # <<>> /\ content[Len(content)] \in Whitespace
    THEN RStrip(SubSeq(content, 1, Len(content) - 1)) ELSE content

\* str.strip()
Strip(content) == RStrip(LStrip(content))

\* str.split(sep): the parts between the occurrences of the separator
RECURSIVE Split(_, _)
Split(content, sep) ==
    IF \E i \in 1..Len(content) : content[i] = sep
    THEN LET i == CHOOSE k \in 1..Len(content) :
                     /\ content[k] = sep
                     /\ \A j \in 1..(k - 1) : content[j] # sep
         IN  <<SubSeq(content, 1, i - 1)>>
                 \o Split(SubSeq(content, i + 1, Len(content)), sep)
    ELSE <<content>>

\* sep.join(parts)
RECURSIVE Join(_, _)
Join(parts, sep) ==
    IF parts = <<>> THEN <<>>
    ELSE IF Len(parts) = 1 THEN parts[1]
    ELSE parts[1] \o sep \o Join(Tail(parts), sep)

\* content.startswith("You are")
StartsWithYouAre(content) == content # <<>> /\ Head(content) = "You are"

\* x in y, for strings
Within(x, y) ==
    \E i \in 0..(Len(y) - Len(x)) : SubSeq(y, i + 1, i + Len(x)) = x

\* the pieces in which one of "hope", "feel free", "let me know", "happy to"
\* occurs (lower case)
FriendlySignals ==
    {"i hope this helps!", "feel free to ask if you need more clarification!",
     "let me know if you have other questions!",
     "feel free to explore creative possibilities with this!"}

\* the pieces in which "creative" or "imagine" occurs (lower case)
CreativeSignals == {"feel free to explore creative possibilities with this!"}

Mentions(content, signals) ==
    \E i \in 1..Len(content) : Lower(content[i]) \in signals

\* AdvancedAIService._ensure_professional_tone
EnsureProfessionalTone(content) ==
    [i \in 1..Len(content) |-> IF content[i] = "yeah" THEN "yes" ELSE content[i]]

\* AdvancedAIService._add_friendly_touches; addition is random.choice(...)
AddFriendlyTouches(content, addition) ==
    IF content = <<>> THEN content
    ELSE IF StrLen(content) > FriendlyMinLength /\ ~Mentions(content, FriendlySignals)
    THEN content \o <<" ", addition>>
    ELSE content

\* AdvancedAIService._enhance_creativity
EnhanceCreativity(content) ==
    IF ~Mentions(content, CreativeSignals) /\ StrLen(content) > CreativeMinLength
    THEN content \o <<" ", CreativeAddition>>
    ELSE content

\* the loop of _improve_response_quality over sentences[i..]
RECURSIVE UniqueSentences(_, _, _)
UniqueSentences(sentences, i, unique) ==
    IF i > Len(sentences) THEN unique
    ELSE LET sentence == Strip(sentences[i])
         IN  IF /\ sentence # <<>>
                /\ ~\E k \in 1..Len(unique) :
                       Within(LowerAll(sentence), LowerAll(unique[k]))
             THEN UniqueSentences(sentences, i + 1, Append(unique, sentence))
             ELSE UniqueSentences(sentences, i + 1, unique)

\* str.endswith(('.', '!', '?'))
EndsSentence(content) ==
    /\ content # <<>>
    /\ content[Len(content)] \in {"."} \cup FriendlyAdditions \cup {CreativeAddition}

\* AdvancedAIService._improve_response_quality
ImproveResponseQuality(content) ==
    LET improved == Join(UniqueSentences(Split(content, "."), 1, <<>>), <<".", " ">>)
    IN  IF improved # <<>> /\ ~EndsSentence(improved)
        THEN Append(improved, ".")
        ELSE improved

\* AdvancedAIService._post_process_response
PostProcessResponse(content, style, addition) ==
    IF content = <<>> THEN content
    ELSE LET stripped == Strip(content)
             unprompted == IF StartsWithYouAre(stripped)
                           THEN Strip(Join(Tail(Split(stripped, "\n")), <<"\n">>))
                           ELSE stripped
             touched == CASE style = "professional" -> EnsureProfessionalTone(unprompted)
                          [] style = "friendly" -> AddFriendlyTouches(unprompted, addition)
                          [] style = "creative" -> EnhanceCreativity(unprompted)
                          [] OTHER -> unprompted
         IN  ImproveResponseQuality(touched)

-----------------------------------------------------------------------------
(* Feedback store *)

\* add_message_feedback calls explored
MaxFeedback == 5

\* the engagement term saturates at this many feedback events (scaled; the
\* code has total_count / 100.0)
EngagementCap == 4

\* get_best_model_for_style: total_feedback_count >= 3
MinFeedbackCount == 3

\* longest history of one (backend, style) pair given to get_best_model_for_style
MaxRowEvents == 4

\* longest run of thumbs_down events recorded for one pair
MaxThumbsDown == 6

\* ai_model_used of a feedback event
FeedbackModels == {Gemini, DialoGPT}

\* ai_model_used of the feedback events recorded one write at a time
RecordedModels == {Gemini}

\* conversation_style of a feedback event (optional)
FeedbackStyles == {"creative", None}

\* feedback_type and rating of a feedback event
FeedbackKinds ==
    {[feedback_type |-> "thumbs_up", rating |-> 0],
     [feedback_type |-> "thumbs_down", rating |-> 0],
     [feedback_type |-> "detailed", rating |-> 0],
     [feedback_type |-> "rating", rating |-> 1],
     [feedback_type |-> "rating", rating |-> 5]}

\* conversation_style or 'default'
StyleOrDefault(style) == IF style = None THEN "default" ELSE style

\* an empty table
NoRows == [k \in {} |-> 0]

\* INSERT INTO message_feedback: one more row with these columns
InsertFeedback(table, record) ==
    [r \in DOMAIN table \cup {record} |->
        IF r = record
        THEN (IF record \in DOMAIN table THEN table[record] ELSE 0) + 1
        ELSE table[r]]

\* the number of rows of a table of counted records
RECURSIVE CountRows(_)
CountRows(table) ==
    IF DOMAIN table = {} THEN 0
    ELSE LET r == CHOOSE x \in DOMAIN table : TRUE
         IN  table[r] + CountRows([x \in DOMAIN table \ {r} |-> table[x]])

\* x <= y, for fractions
LessEq(x, y) == x.num * y.den <= y.num * x.den

\* mutant: the positive ratio is taken over the previous total
CalculatePerformanceScoreStaleTotal(avg_rating, positive_count, negative_count, total_count) ==
    IF total_count = 0 THEN Zero
    ELSE LET engaged == IF total_count < EngagementCap
                        THEN total_count ELSE EngagementCap
             ratio_total == IF total_count > 1 THEN total_count - 1 ELSE 1
         IN  Fraction(12 * EngagementCap * avg_rating.num * ratio_total
                          + 30 * EngagementCap * positive_count * avg_rating.den
                          + 10 * engaged * avg_rating.den * ratio_total,
                      100 * EngagementCap * avg_rating.den * ratio_total)

\* FeedbackManager._calculate_performance_score:
\*   (avg_rating / 5.0) * 0.6 + (positive_count / total_count) * 0.3
\*       + min(total_count / cap, 1.0) * 0.1
CalculatePerformanceScore(avg_rating, positive_count, negative_count, total_count) ==
    IF total_count = 0 THEN Zero
    ELSE LET engaged == IF total_count < EngagementCap
                        THEN total_count ELSE EngagementCap
         IN  Fraction(12 * EngagementCap * avg_rating.num * total_count
                          + 30 * EngagementCap * positive_count * avg_rating.den
                          + 10 * engaged * avg_rating.den * total_count,
                      100 * EngagementCap * avg_rating.den * total_count)

\* mutant: the two counters are swapped
PositiveIncrementSwapped(feedback_type) ==
    IF feedback_type = "thumbs_down" THEN 1 ELSE 0

\* 1 if feedback_type == 'thumbs_up' else 0
PositiveIncrement(feedback_type) ==
    IF feedback_type = "thumbs_up" THEN 1 ELSE 0

\* 1 if feedback_type == 'thumbs_down' else 0
NegativeIncrement(feedback_type) ==
    IF feedback_type = "thumbs_down" THEN 1 ELSE 0

\* FeedbackManager._update_model_performance, from the SELECT to the
\* UPDATE / INSERT of the row of (ai_model, conversation_style)
UpdateModelPerformance(table, ai_model, conversation_style, feedback_type, rating) ==
    LET key == <<ai_model, conversation_style>>
        rated == rating # 0 /\ feedback_type = "rating"
        positive == PositiveIncrement(feedback_type)
        negative == NegativeIncrement(feedback_type)
        row ==
            IF key \in DOMAIN table
            THEN LET current == table[key]
                     new_total == current.total_feedback_count + 1
                     new_avg_rating ==
                         IF rated
                         THEN Fraction(current.avg_rating.num
                                           * current.total_feedback_count
                                         + rating * current.avg_rating.den,
                                       current.avg_rating.den * new_total)
                         ELSE current.avg_rating
                     new_positive == current.positive_feedback_count + positive
                     new_negative == current.negative_feedback_count + negative
                 IN  [avg_rating |-> new_avg_rating,
                      total_feedback_count |-> new_total,
                      positive_feedback_count |-> new_positive,
                      negative_feedback_count |-> new_negative,
                      performance_score |->
                          CalculatePerformanceScore(new_avg_rating, new_positive,
                                                    new_negative, new_total)]
            ELSE LET initial_rating == IF rated THEN Fraction(rating, 1)
                                       ELSE Fraction(3, 1)
                 IN  [avg_rating |-> initial_rating,
                      total_feedback_count |-> 1,
                      positive_feedback_count |-> positive,
                      negative_feedback_count |-> negative,
                      performance_score |->
                          CalculatePerformanceScore(initial_rating, positive,
                                                    negative, 1)]
    IN  [k \in DOMAIN table \cup {key} |-> IF k = key THEN row ELSE table[k]]

\* the rows the query of get_best_model_for_style selects from
Candidates(table, conversation_style) ==
    {k \in DOMAIN table :
        /\ k[2] = conversation_style
        /\ table[k].total_feedback_count >= MinFeedbackCount}

\* ORDER BY performance_score DESC, total_feedback_count DESC: row j does not
\* come before row k
NotBefore(table, j, k) ==
    \/ ~LessEq(table[k].performance_score, table[j].performance_score)
    \/ /\ table[k].performance_score = table[j].performance_score
       /\ table[k].total_feedback_count >= table[j].total_feedback_count

\* mutant: the query has no threshold on total_feedback_count
BestModelsForStyleNoThreshold(table, conversation_style, answers) ==
    LET rows == {k \in DOMAIN table : k[2] = conversation_style}
    IN  IF ~answers \/ rows = {} THEN {None}
        ELSE {k[1] : k \in {k \in rows : \A j \in rows : NotBefore(table, j, k)}}

\* mutant: the query orders by total_feedback_count only
BestModelsForStyleByCount(table, conversation_style, answers) ==
    LET rows == Candidates(table, conversation_style)
    IN  IF ~answers \/ rows = {} THEN {None}
        ELSE {k[1] : k \in {k \in rows : \A j \in rows :
                 table[k].total_feedback_count >= table[j].total_feedback_count}}

\* FeedbackManager.get_best_model_for_style: the values it may return (LIMIT 1
\* takes any of the rows that the ordering puts first); answers is false when
\* the query raises sqlite3.Error
BestModelsForStyle(table, conversation_style, answers) ==
    LET rows == Candidates(table, conversation_style)
    IN  IF ~answers \/ rows = {} THEN {None}
        ELSE {k[1] : k \in {k \in rows : \A j \in rows : NotBefore(table, j, k)}}

\* the handlers of add_message_feedback (lines 152-158) and of
\* _update_model_performance (lines 223-227): 'except sqlite3.Error as error'
\* binds the exception to this name
HandlerBinds == "error"

\* ... and the message they log is the f-string "...: {e}", which reads this one
HandlerFormats == "e"

\* what a handler does with a sqlite3.Error: log and go on to the return, or
\* raise NameError while building the message
HandleWriteFailure ==
    IF HandlerFormats = HandlerBinds
    THEN [ok |-> FALSE, err |-> None]
    ELSE [ok |-> FALSE, err |-> "NameError"]

\* add_message_feedback when both of its writes succeed
AddMessageFeedback(store, ai_model, style, kind) ==
    [message_feedback |->
        InsertFeedback(store.message_feedback,
                       [ai_model_used |-> ai_model, conversation_style |-> style,
                        feedback_type |-> kind.feedback_type]),
     model_performance |->
        UpdateModelPerformance(store.model_performance, ai_model,
                               StyleOrDefault(style), kind.feedback_type,
                               kind.rating)]

\* the store after add_message_feedback for each of the kinds, in order
RECURSIVE Recorded(_, _, _, _)
Recorded(store, ai_model, style, kinds) ==
    IF kinds = <<>> THEN store
    ELSE Recorded(AddMessageFeedback(store, ai_model, style, Head(kinds)),
                  ai_model, style, Tail(kinds))

\* the feedback kinds of the histories given to get_best_model_for_style
HistoryKinds ==
    {k \in FeedbackKinds : k.feedback_type # "detailed" /\ k.rating # 1}

\* the histories of one pair, of at most n events
Histories(n) == UNION {[1..m -> HistoryKinds] : m \in 0..n}

\* no add_message_feedback call in progress
NoFeedbackCall ==
    [pc |-> "idle", ai_model |-> None, conversation_style |-> None,
     feedback_type |-> None, rating |-> 0]

\* generate_learning_insights: score < 0.5 AND total_feedback_count >= 5
UnderperformingMinCount == 5

\* generate_learning_insights: score > 0.8 AND total_feedback_count >= 10
TopPerformerMinCount == 10

\* one entry of the list generate_learning_insights returns
Insight(type, severity, key) ==
    [type |-> type, severity |-> severity, model |-> key[1], style |-> key[2]]

\* mutant: the first query has the threshold of the third
UnderperformingLowThreshold(table) ==
    {k \in DOMAIN table :
        /\ 2 * table[k].performance_score.num < table[k].performance_score.den
        /\ table[k].total_feedback_count >= MinFeedbackCount}

\* WHERE performance_score < 0.5 AND total_feedback_count >= 5
Underperforming(table) ==
    {k \in DOMAIN table :
        /\ 2 * table[k].performance_score.num < table[k].performance_score.den
        /\ table[k].total_feedback_count >= UnderperformingMinCount}

\* WHERE performance_score > 0.8 AND total_feedback_count >= 10
TopPerformers(table) ==
    {k \in DOMAIN table :
        /\ 5 * table[k].performance_score.num > 4 * table[k].performance_score.den
        /\ table[k].total_feedback_count >= TopPerformerMinCount}

\* mutant: the third query includes the rows that have just enough data
LowFeedbackModelsInclusive(table) ==
    {k \in DOMAIN table : table[k].total_feedback_count <= MinFeedbackCount}

\* WHERE total_feedback_count < 3
LowFeedbackModels(table) ==
    {k \in DOMAIN table : table[k].total_feedback_count < MinFeedbackCount}

\* FeedbackManager.generate_learning_insights: the entries of the list it
\* returns; answers is false when a query raises sqlite3.Error
GenerateLearningInsights(table, answers) ==
    IF ~answers THEN {}
    ELSE {Insight("underperforming_model", "high", k) : k \in Underperforming(table)}
         \cup {Insight("high_performer", "info", k) : k \in TopPerformers(table)}
         \cup {Insight("insufficient_data", "medium", k) :
                   k \in LowFeedbackModels(table)}

\* generate_learning_insights has not been called
NoInsights == [called |-> FALSE, answers |-> FALSE, entries |-> {}]

\* a thread that is in no add_message_feedback call
IdleWriter ==
    [pc |-> "idle", ai_model |-> None, conversation_style |-> None,
     feedback_type |-> None, rating |-> 0, current |-> NoRows]

\* no concurrent add_message_feedback call in progress
NoWriters == [t \in 1..NThreads |-> IdleWriter]

NoFeedback ==
    /\ message_feedback = NoRows
    /\ model_performance = NoRows
    /\ fb = NoFeedbackCall
    /\ insights = NoInsights
    /\ writers = NoWriters

-----------------------------------------------------------------------------
(* The chat history store *)

\* conversations in the store
MaxConversations == 2

\* session ids of the callers
Sessions == {"s1", "s2"}

\* the conversation ids a caller of add_message_feedback may pass: those the
\* store can hold and one that it never holds
ConversationIds == 1..(MaxConversations + 1)

\* DatabaseManager._get_connection: PRAGMA foreign_keys = ON
HistoryForeignKeys == TRUE

\* FeedbackManager opens its connections with sqlite3.connect(self.db_path)
\* and nothing else: SQLite leaves FOREIGN KEY clauses unenforced
FeedbackForeignKeys == FALSE

\* FOREIGN KEY (conversation_id) REFERENCES conversations(id), on a
\* connection that enforces foreign keys or not
ReferencesConversation(table, conversation_id, foreign_keys) ==
    foreign_keys => \E c \in table : c.id = conversation_id

\* add_message_feedback(message_id, conversation_id, ...): the INSERT, the
\* update of the pair, and what it returns or raises
AddMessageFeedbackFor(store, table, conversation_id, ai_model, style, kind) ==
    IF ReferencesConversation(table, conversation_id, FeedbackForeignKeys)
    THEN [message_feedback |->
              InsertFeedback(store.message_feedback,
                             [conversation_id |-> conversation_id,
                              ai_model_used |-> ai_model,
                              conversation_style |-> style,
                              feedback_type |-> kind.feedback_type,
                              rating |-> kind.rating]),
          model_performance |->
              UpdateModelPerformance(store.model_performance, ai_model,
                                     StyleOrDefault(style), kind.feedback_type,
                                     kind.rating),
          ok |-> TRUE, err |-> None]
    ELSE [message_feedback |-> store.message_feedback,
          model_performance |-> store.model_performance,
          ok |-> HandleWriteFailure.ok, err |-> HandleWriteFailure.err]

\* the conversations table after n create_conversation calls for distinct
\* sessions: AUTOINCREMENT ids 1..n
StoredConversations ==
    {{}, {[id |-> 1, session_id |-> "s1"]},
     {[id |-> 1, session_id |-> "s1"], [id |-> 2, session_id |-> "s2"]}}

\* ChatHistoryService calls explored
MaxHistoryCalls == 3

\* the calls of ChatHistoryService that write
HistoryOps == {"start_or_resume_conversation", "add_user_message",
               "add_assistant_message"}

\* role of the message a call stores
RoleOf(op) == IF op = "add_user_message" THEN "user" ELSE "assistant"

\* the None of get_conversation_by_session, among ids that start at 1
NoConversation == 0

\* DatabaseManager.get_conversation_by_session: the ids fetchone() may give
\* (WHERE session_id = ?), None when no row matches
ConversationsOfSession(table, session_id) ==
    LET found == {c.id : c \in {c \in table : c.session_id = session_id}}
    IN  IF found = {} THEN {NoConversation} ELSE found

\* AUTOINCREMENT: one more than the largest id the table has had (no row is
\* ever deleted here)
NextConversationId(table) == Cardinality(table) + 1

\* mutant: session_id is not UNIQUE
CreateConversationNoUnique(table, session_id) ==
    [table |-> table \cup {[id |-> NextConversationId(table),
                            session_id |-> session_id]},
     ids |-> {NextConversationId(table)}]

\* DatabaseManager.create_conversation: the INSERT and its commit, or the
\* IntegrityError of UNIQUE(session_id) and the id of the row that is there
CreateConversation(table, session_id) ==
    IF \E c \in table : c.session_id = session_id
    THEN [table |-> table, ids |-> ConversationsOfSession(table, session_id)]
    ELSE [table |-> table \cup {[id |-> NextConversationId(table),
                                 session_id |-> session_id]},
          ids |-> {NextConversationId(table)}]

\* DatabaseManager.add_message: INSERT INTO messages, timestamp
\* CURRENT_TIMESTAMP (whole seconds)
AddMessage(table, conversation_id, role, t) ==
    Append(table, [id |-> Len(table) + 1, conversation_id |-> conversation_id,
                   role |-> role, timestamp |-> t])

\* the rows of a conversation, by rowid
MessagesOf(table, conversation_id) ==
    SelectSeq(table, LAMBDA m : m.conversation_id = conversation_id)

\* the orders in which a result may list these rows
Arrangements(rows) ==
    {[i \in 1..Len(rows) |-> rows[p[i]]] :
        p \in {q \in [1..Len(rows) -> 1..Len(rows)] :
                  \A i, j \in 1..Len(rows) : i # j => q[i] # q[j]}}

\* DatabaseManager.get_conversation_messages: the lists fetchall() may give
\* for WHERE conversation_id = ? ORDER BY timestamp ASC; the order of rows
\* with equal timestamps is whatever the database makes it
GetConversationMessages(table, conversation_id) ==
    {r \in Arrangements(MessagesOf(table, conversation_id)) :
        \A i, j \in 1..Len(r) : i < j => r[i].timestamp <= r[j].timestamp}

\* a thread that is in no call
IdleCall ==
    [pc |-> "idle", op |-> None, session_id |-> None,
     conversation |-> NoConversation]

\* no ChatHistoryService call in progress, none made
NoHistoryCalls ==
    [thread |-> [t \in 1..NThreads |-> IdleCall], started |-> 0, returned |-> {},
     conflicted |-> FALSE, history |-> <<>>]

NoHistory ==
    /\ conversations = {}
    /\ messages_table = <<>>
    /\ hist = NoHistoryCalls

-----------------------------------------------------------------------------
(* LearningService *)

\* self.cache_ttl = 300  # 5 minutes cache
CacheTtl == 300

\* "Gemini Pro"  # Default fallback
DefaultFallback == Gemini

DialoGPTMedium == "DialoGPT Medium"

\* conversation_style of a get_optimal_model call
LearningStyles == {"creative", "casual"}

\* available_models of a get_optimal_model call; <<>> stands for None too
AvailableChoices == {<<>>, <<DialoGPT>>}

\* f"{conversation_style}_{hash(tuple(sorted(available_models or [])))}"
CacheKey(conversation_style, available_models) ==
    <<conversation_style, Range(available_models)>>

\* LearningService._get_fallback_model: style_preferences
StylePreferences(conversation_style) ==
    CASE conversation_style = "professional" -> <<Gemini, DialoGPT, DialoGPTMedium>>
      [] conversation_style = "creative" -> <<Gemini, BlenderBot, DialoGPT>>
      [] conversation_style = "analytical" -> <<Gemini, DialoGPT, DialoGPTMedium>>
      [] conversation_style = "friendly" -> <<BlenderBot, Gemini, DialoGPTMedium>>
      [] conversation_style = "casual" -> <<BlenderBot, DialoGPTMedium, Gemini>>
      [] conversation_style = "helpful" -> <<Gemini, DialoGPT, BlenderBot>>
      [] OTHER -> <<Gemini>>

\* LearningService._get_fallback_model: the first preferred model that is
\* available, else the first available one
GetFallbackModel(conversation_style, available_models) ==
    LET preferred == StylePreferences(conversation_style)
        hits == {i \in 1..Len(preferred) : Contains(available_models, preferred[i])}
    IN  IF hits # {}
        THEN preferred[CHOOSE i \in hits : \A j \in hits : i <= j]
        ELSE available_models[1]

\* get_optimal_model, lines 43-57: the selection for what the feedback store
\* answered
SelectModel(learned_model, conversation_style, available_models) ==
    IF learned_model # None
          /\ (available_models = <<>> \/ Contains(available_models, learned_model))
    THEN learned_model
    ELSE IF available_models # <<>>
    THEN GetFallbackModel(conversation_style, available_models)
    ELSE DefaultFallback

\* an empty dict
NoCache == [k \in {} |-> None]

\* LearningService.get_optimal_model: served says whether the value came
\* from the cache; every entry remembers when it was computed
GetOptimalModel(cache, timestamp, t, table, conversation_style, available_models, answers) ==
    LET cache_key == CacheKey(conversation_style, available_models)
    IN  IF cache_key \in DOMAIN cache /\ t - timestamp < CacheTtl
        THEN [cache |-> cache, timestamp |-> timestamp, served |-> TRUE,
              models |-> {cache[cache_key].model},
              computed_at |-> cache[cache_key].computed_at]
        ELSE [cache |-> cache, timestamp |-> t, served |-> FALSE,
              models |-> {SelectModel(learned, conversation_style, available_models) :
                             learned \in BestModelsForStyle(table, conversation_style,
                                                            answers)},
              computed_at |-> t]

\* get_optimal_model has not been called
NoOptimal ==
    [called |-> FALSE, key |-> <<None, {}>>, served |-> FALSE, model |-> None,
     computed_at |-> 0, at |-> 0]

\* LearningService.__init__
NoLearning ==
    /\ model_cache = NoCache
    /\ cache_timestamp = 0
    /\ optimal = NoOptimal

-----------------------------------------------------------------------------
(* LLMProxy *)

\* filtered_history[-10:]
HistoryWindow == 10

\* the longest history sent to send_message
MaxHistoryLen == 12

MustStartWithUser == "Conversation must start with a user message."

\* the returns of send_message after requests.post, by what the post did
PostOutcomes == {"ok", "timeout", "http_error", "network_error"}

ProviderReply(outcome) ==
    CASE outcome = "ok" -> "text"
      [] outcome = "timeout" -> "Request timed out. Please try again later."
      [] outcome = "http_error" -> "HTTP error"
      [] OTHER -> "Network error occurred. Please check your connection."

\* msg.get("role") and msg.get("content")
ValidMessage(msg) == msg.role # "" /\ msg.content # ""

\* [msg for msg in history if msg.get("role") and msg.get("content")]
FilterValid(history) == SelectSeq(history, ValidMessage)

\* s[-n:]
LastN(s, n) == IF Len(s) <= n THEN s ELSE SubSeq(s, Len(s) - n + 1, Len(s))

\* payload["contents"]
Payload(filtered_history) ==
    [i \in 1..Len(filtered_history) |->
        [role |-> IF filtered_history[i].role = "user" THEN "user" ELSE "model",
         text |-> filtered_history[i].content]]

\* LLMProxy.send_message
SendMessage(history, outcome) ==
    LET filtered_history == LastN(FilterValid(history), HistoryWindow)
    IN  IF filtered_history = <<>> \/ filtered_history[1].role # "user"
        THEN [requested |-> FALSE, contents |-> <<>>, reply |-> MustStartWithUser]
        ELSE [requested |-> TRUE, contents |-> Payload(filtered_history),
              reply |-> ProviderReply(outcome)]

\* the other role of a two-party conversation
OtherRole(role) == IF role = "user" THEN "assistant" ELSE "user"

\* n messages taking turns, the first one from role first
Alternating(n, first) ==
    [i \in 1..n |-> [role |-> IF i % 2 = 1 THEN first ELSE OtherRole(first),
                     content |-> "m"]]

\* messages send_message filters out
InvalidMessages == {[role |-> "", content |-> "m"], [role |-> "user", content |-> ""]}

\* s with x put in after its first p elements
InsertAt(s, p, x) == SubSeq(s, 1, p) \o <<x>> \o SubSeq(s, p + 1, Len(s))

\* the histories handed to send_message: conversations taking turns, with
\* at most one invalid message among them
ProxyHistories ==
    LET turns == {Alternating(n, first) : n \in 0..MaxHistoryLen,
                                          first \in {"user", "assistant"}}
    IN  turns \cup UNION {{InsertAt(h, p, x) : p \in {0, 1, Len(h)},
                                               x \in InvalidMessages} :
                          h \in {t \in turns : 0 < Len(t) /\ Len(t) < MaxHistoryLen}}

\* send_message has not been called
NoSent ==
    [called |-> FALSE, history |-> <<>>, requested |-> FALSE, contents |-> <<>>,
     reply |-> None]

NoProxy == proxy = NoSent

\* the components around the core, as constructed
NoClients == NoHistory /\ NoLearning /\ NoProxy

-----------------------------------------------------------------------------
(* Concurrent callers of one adapter *)

Threads == 1..NThreads

NoThreads ==
    /\ thread = [t \in Threads |-> "idle"]
    /\ overlapped = FALSE

-----------------------------------------------------------------------------
(* One adapter instance, of either class, driven one request at a time *)

Init ==
    /\ now = StartTime
    /\ ticks = 0
    /\ \E b \in Adapters :
          /\ strategy = [x \in {b} |-> NewStrategy(x)]
          /\ lastReset = [x \in {b} |-> StartTime]
    /\ lastOp = NoOp
    /\ models = <<>>
    /\ default_model = None
    /\ pc = "idle"
    /\ call = NoCall
    /\ trace = <<>>
    /\ invoked = <<>>
    /\ response = NoResponse
    /\ NoThreads
    /\ NoService
    /\ NoText
    /\ NoFeedback
    /\ NoClients

Tick ==
    /\ ticks < MaxTicks
    /\ \E d \in TimeSteps : now' = now + d
    /\ ticks' = ticks + 1
    /\ lastOp' = [NoOp EXCEPT !.op = "tick"]
    /\ UNCHANGED adapterVars
    /\ UNCHANGED managerVars
    /\ UNCHANGED <<concVars, serviceVars, textVars, feedbackVars>>
    /\ UNCHANGED clientVars

\* a caller asks the adapter whether it is within its limits
\* (get_system_status, get_available_models, test_model_connectivity)
CheckRateLimitCall ==
    /\ pc = "idle"
    /\ \E b \in DOMAIN strategy :
        LET chk == CheckRateLimit(strategy[b], b, now)
        IN  /\ strategy' = [strategy EXCEPT ![b] = chk.state]
            /\ lastReset' = [lastReset EXCEPT ![b] = ResetTime(strategy[b], @, now)]
            /\ lastOp' = AdapterOp("check_rate_limit", b, chk.ok, FALSE, None)
    /\ UNCHANGED <<now, ticks>>
    /\ UNCHANGED managerVars
    /\ UNCHANGED <<concVars, serviceVars, textVars, feedbackVars>>
    /\ UNCHANGED clientVars

\* a caller sends one request through the adapter
GenerateResponseCall ==
    /\ pc = "idle"
    /\ \E b \in DOMAIN strategy, outcome \in ProviderOutcomes :
        LET gen == GenerateResponse(strategy[b], b, now, outcome)
        IN  /\ strategy' = [strategy EXCEPT ![b] = gen.state]
            /\ lastReset' = [lastReset EXCEPT ![b] = ResetTime(strategy[b], @, now)]
            /\ lastOp' = AdapterOp("generate_response", b, gen.response.success,
                                   gen.sent, gen.response.error_message)
    /\ UNCHANGED <<now, ticks>>
    /\ UNCHANGED managerVars
    /\ UNCHANGED <<concVars, serviceVars, textVars, feedbackVars>>
    /\ UNCHANGED clientVars

Next == Tick \/ CheckRateLimitCall \/ GenerateResponseCall

Spec == Init /\ [][Next]_vars

-----------------------------------------------------------------------------
(* The registry on its own: register_model and set_preferred_model *)

RegistryInit ==
    /\ now = StartTime
    /\ ticks = 0
    /\ strategy = [b \in Backends |-> NewStrategy(b)]
    /\ lastReset = [b \in Backends |-> StartTime]
    /\ lastOp = NoOp
    /\ models = <<>>
    /\ default_model = None
    /\ pc = "idle"
    /\ call = NoCall
    /\ trace = <<>>
    /\ invoked = <<>>
    /\ response = NoResponse
    /\ NoThreads
    /\ NoService
    /\ NoText
    /\ NoFeedback
    /\ NoClients

\* ModelManager.register_model
RegisterModel ==
    /\ pc = "idle"
    /\ \E b \in Backends, is_default \in BOOLEAN :
          /\ models' = RegisterName(models, b)
          /\ default_model' = RegisterDefault(default_model, b, is_default)
          /\ lastOp' = ManagerOp("register_model", b,
                                 IF is_default THEN "is_default" ELSE "not_default",
                                 TRUE)
    /\ UNCHANGED <<now, ticks, pc, call, trace, invoked, response>>
    /\ UNCHANGED adapterVars
    /\ UNCHANGED <<concVars, serviceVars, textVars, feedbackVars>>
    /\ UNCHANGED clientVars

\* AdvancedAIService.set_preferred_model
SetPreferredModel ==
    /\ pc = "idle"
    /\ \E name \in Backends \cup {Unknown} :
          LET r == SetPreferred(models, default_model, name)
          IN  /\ default_model' = r.default_model
              /\ lastOp' = ManagerOp("set_preferred_model", name, None, r.ok)
    /\ UNCHANGED <<now, ticks, models, pc, call, trace, invoked, response>>
    /\ UNCHANGED adapterVars
    /\ UNCHANGED <<concVars, serviceVars, textVars, feedbackVars>>
    /\ UNCHANGED clientVars

RegistryNext == RegisterModel \/ SetPreferredModel

RegistrySpec == RegistryInit /\ [][RegistryNext]_vars

-----------------------------------------------------------------------------
(* generate_with_fallback on the registry that AdvancedAIService builds *)

\* AdvancedAIService.__init__ / _register_models: Gemini is registered as the
\* default, then the Hugging Face models
FallbackInit ==
    /\ now = StartTime
    /\ ticks = 0
    /\ strategy = [b \in Backends |-> NewStrategy(b)]
    /\ lastReset = [b \in Backends |-> StartTime]
    /\ lastOp = NoOp
    /\ models = RegisterName(RegisterName(RegisterName(<<>>, Gemini), DialoGPT),
                             BlenderBot)
    /\ default_model =
          RegisterDefault(RegisterDefault(RegisterDefault(None, Gemini, TRUE),
                                          DialoGPT, FALSE), BlenderBot, FALSE)
    /\ pc = "idle"
    /\ call = NoCall
    /\ trace = <<>>
    /\ invoked = <<>>
    /\ response = NoResponse
    /\ NoThreads
    /\ NoService
    /\ NoText
    /\ NoFeedback
    /\ NoClients

\* generate_with_fallback, up to the loop: models_to_try is built.
\* rel: a backend that, during this call, validates and generates successfully
\* whenever it is asked (None: there is none); the others may do anything.
FallbackStart ==
    /\ pc = "idle"
    /\ \E preferred \in Backends \cup {None, Unknown},
          rel \in Range(models) \cup {None},
          valid \in [Backends -> BOOLEAN] :
          /\ rel # None => valid[rel]
          /\ LET av == AvailableModels(strategy, models, valid, now)
                 order == CandidateOrder(preferred, default_model, models, av.names)
             IN  /\ strategy' = av.state
                 /\ lastReset' = [b \in Backends |->
                        IF Contains(models, b) /\ valid[b]
                        THEN ResetTime(strategy[b], lastReset[b], now)
                        ELSE lastReset[b]]
                 /\ call' = [preferred_model |-> preferred,
                             models_to_try |-> order,
                             idx |-> 1,
                             reliable |-> rel,
                             available |-> Range(av.names),
                             usable |-> rel \in Range(av.names)]
                 /\ lastOp' = ManagerOp("generate_with_fallback", preferred, None, TRUE)
    /\ pc' = "try"
    /\ trace' = <<>>
    /\ invoked' = <<>>
    /\ response' = NoResponse
    /\ UNCHANGED <<now, ticks, models, default_model>>
    /\ UNCHANGED <<concVars, serviceVars, textVars, feedbackVars>>
    /\ UNCHANGED clientVars

\* generate_with_fallback: one turn of the loop
FallbackTry ==
    /\ pc = "try"
    /\ call.idx <= Len(call.models_to_try)
    /\ LET b == call.models_to_try[call.idx]
       IN  \E valid \in BOOLEAN, outcome \in ProviderOutcomes \cup {"raises"} :
             /\ b = call.reliable => valid /\ outcome = "ok"
             /\ LET r == TryCandidate(strategy[b], b, now, valid, outcome)
                    rl == CheckRateLimit(strategy[b], b, now).ok
                IN  /\ strategy' = [strategy EXCEPT ![b] = r.state]
                    /\ lastReset' = [lastReset EXCEPT ![b] =
                           IF valid THEN ResetTime(strategy[b], @, now) ELSE @]
                    /\ trace' = Append(trace,
                           [name |-> b, valid |-> valid, within |-> rl,
                            outcome |-> IF valid /\ rl THEN outcome ELSE None])
                    /\ invoked' = IF r.invoked THEN Append(invoked, b) ELSE invoked
                    /\ lastOp' = [NoOp EXCEPT
                           !.op = "try", !.b = b, !.ok = r.stop, !.sent = r.sent,
                           !.err = r.response.error_message,
                           !.arg = IF ~valid THEN "invalid"
                                   ELSE IF ~rl THEN "rate_limited"
                                   ELSE outcome]
                    /\ IF r.stop
                       THEN /\ pc' = "done"
                            /\ response' = r.response
                            /\ call' = call
                       ELSE /\ pc' = "try"
                            /\ response' = response
                            /\ call' = [call EXCEPT !.idx = @ + 1]
    /\ UNCHANGED <<now, ticks, models, default_model>>
    /\ UNCHANGED <<concVars, serviceVars, textVars, feedbackVars>>
    /\ UNCHANGED clientVars

\* generate_with_fallback: every candidate was tried without success
FallbackExhausted ==
    /\ pc = "try"
    /\ call.idx > Len(call.models_to_try)
    /\ pc' = "done"
    /\ response' = AllFailed
    /\ lastOp' = ManagerOp("all_failed", None, None, FALSE)
    /\ UNCHANGED <<now, ticks, models, default_model, call, trace, invoked>>
    /\ UNCHANGED adapterVars
    /\ UNCHANGED <<concVars, serviceVars, textVars, feedbackVars>>
    /\ UNCHANGED clientVars

\* generate_with_fallback has returned `response` to its caller
FallbackReturn ==
    /\ pc = "done"
    /\ pc' = "idle"
    /\ call' = NoCall
    /\ trace' = <<>>
    /\ invoked' = <<>>
    /\ response' = NoResponse
    /\ lastOp' = [NoOp EXCEPT !.op = "return"]
    /\ UNCHANGED <<now, ticks, models, default_model>>
    /\ UNCHANGED adapterVars
    /\ UNCHANGED <<concVars, serviceVars, textVars, feedbackVars>>
    /\ UNCHANGED clientVars

FallbackNext ==
    \/ SetPreferredModel
    \/ FallbackStart
    \/ FallbackTry
    \/ FallbackExhausted
    \/ FallbackReturn
    \/ GenerateResponseCall

FallbackSpec == FallbackInit /\ [][FallbackNext]_vars

-----------------------------------------------------------------------------
(* Two or more threads calling generate_response on one adapter, no lock *)

ConcInit == Init

\* generate_response up to requests.post: the rate-limit check
ConcBegin ==
    /\ \E t \in Threads, b \in DOMAIN strategy :
          LET chk == CheckRateLimit(strategy[b], b, now)
          IN  /\ thread[t] = "idle"
              /\ strategy' = [strategy EXCEPT ![b] = chk.state]
              /\ lastReset' = [lastReset EXCEPT ![b] = ResetTime(strategy[b], @, now)]
              /\ thread' = [thread EXCEPT ![t] = IF chk.ok THEN "sending" ELSE "idle"]
              /\ overlapped' =
                    (overlapped \/ \E u \in Threads \ {t} : thread[u] = "sending")
              /\ lastOp' = [NoOp EXCEPT !.op = "begin"]
    /\ UNCHANGED <<now, ticks>>
    /\ UNCHANGED managerVars
    /\ UNCHANGED <<serviceVars, textVars, feedbackVars>>
    /\ UNCHANGED clientVars

\* generate_response from the provider's answer on: the usage update
ConcFinish ==
    /\ \E t \in Threads, b \in DOMAIN strategy, outcome \in ProviderOutcomes :
          /\ thread[t] = "sending"
          /\ strategy' = [strategy EXCEPT ![b] =
                IF outcome = "timeout" THEN @ ELSE RecordRequest(@, now)]
          /\ thread' = [thread EXCEPT ![t] = "idle"]
          /\ lastOp' = [NoOp EXCEPT !.op = "finish"]
    /\ UNCHANGED <<now, ticks, lastReset, overlapped>>
    /\ UNCHANGED managerVars
    /\ UNCHANGED <<serviceVars, textVars, feedbackVars>>
    /\ UNCHANGED clientVars

ConcNext == Tick \/ ConcBegin \/ ConcFinish

ConcSpec == ConcInit /\ [][ConcNext]_vars

-----------------------------------------------------------------------------
(* The orchestrator; the registry is seen through what it returns *)

ServiceInit == RegistryInit

ServiceCall ==
    /\ usage_analytics.total_requests < MaxServiceCalls
    /\ \E style \in Styles, kwargs \in KwargsChoices, reg \in RegistryOutcomes,
          elapsed \in ElapsedChoices :
          LET r == ServiceGenerateResponse(usage_analytics, style, kwargs, reg,
                                           elapsed)
          IN  /\ usage_analytics' = r.analytics
              /\ svc' = [called |-> TRUE, style |-> style, kwargs |-> kwargs,
                         passed |-> r.passed, registry |-> reg,
                         response |-> r.response, raised |-> r.raised,
                         excepted |-> r.excepted,
                         n |-> svc.n + 1,
                         successes |-> svc.successes +
                             (IF ~r.raised /\ r.response.success THEN 1 ELSE 0),
                         elapsed_sum |-> svc.elapsed_sum + elapsed]
    /\ lastOp' = [NoOp EXCEPT !.op = "service_generate_response"]
    /\ UNCHANGED <<now, ticks>>
    /\ UNCHANGED adapterVars
    /\ UNCHANGED managerVars
    /\ UNCHANGED <<concVars, textVars, feedbackVars>>
    /\ UNCHANGED clientVars

ServiceNext == ServiceCall

ServiceSpec == ServiceInit /\ [][ServiceNext]_vars

-----------------------------------------------------------------------------
(* The style engine, applied to the conversations a caller can send *)

StyleInit == RegistryInit

ApplyStyleCall ==
    /\ ~styled.called
    /\ \E messages \in MessageLists, style \in Styles :
          styled' = [called |-> TRUE, messages |-> messages, style |-> style,
                     result |-> ApplyConversationStyle(messages, style)]
    /\ lastOp' = [NoOp EXCEPT !.op = "apply_conversation_style"]
    /\ UNCHANGED <<now, ticks, processed>>
    /\ UNCHANGED adapterVars
    /\ UNCHANGED managerVars
    /\ UNCHANGED <<concVars, serviceVars, feedbackVars>>
    /\ UNCHANGED clientVars

StyleNext == ApplyStyleCall

StyleSpec == StyleInit /\ [][StyleNext]_vars

-----------------------------------------------------------------------------
(* Post-processing, applied to a content and then to its own result *)

\* the service as constructed, before any request
ServiceConstructed ==
    /\ now = StartTime
    /\ ticks = 0
    /\ strategy = [b \in Backends |-> NewStrategy(b)]
    /\ lastReset = [b \in Backends |-> StartTime]
    /\ lastOp = NoOp
    /\ models = <<>>
    /\ default_model = None
    /\ pc = "idle"
    /\ call = NoCall
    /\ trace = <<>>
    /\ invoked = <<>>
    /\ response = NoResponse
    /\ NoThreads
    /\ NoService

\* the arguments of the call: a content, a style and, for the friendly style,
\* what random.choice returns in the first and in the second application
PostProcessInit ==
    /\ ServiceConstructed
    /\ NoFeedback
    /\ NoClients
    /\ styled = NoStyled
    /\ \E content \in Contents, style \in Styles :
          \E first, second \in (IF style = "friendly" THEN FriendlyAdditions
                                ELSE {"I hope this helps!"}) :
              processed = [NoProcessed EXCEPT !.content = content, !.style = style,
                                              !.first = first, !.second = second]

PostProcessCall ==
    /\ ~processed.called
    /\ LET once == PostProcessResponse(processed.content, processed.style,
                                       processed.first)
       IN  processed' = [processed EXCEPT
                            !.called = TRUE,
                            !.once = once,
                            !.twice = PostProcessResponse(once, processed.style,
                                                          processed.second)]
    /\ lastOp' = [NoOp EXCEPT !.op = "post_process_response"]
    /\ UNCHANGED <<now, ticks, styled>>
    /\ UNCHANGED adapterVars
    /\ UNCHANGED managerVars
    /\ UNCHANGED <<concVars, serviceVars, feedbackVars>>
    /\ UNCHANGED clientVars

PostProcessNext == PostProcessCall

PostProcessSpec == PostProcessInit /\ [][PostProcessNext]_vars

-----------------------------------------------------------------------------
(* The feedback store: add_message_feedback commits the feedback row, then *)
(* _update_model_performance commits the row of the pair on a connection   *)
(* of its own; get_best_model_for_style may read between the two.          *)

FeedbackInit == RegistryInit

\* add_message_feedback up to the first conn.commit() (lines 117-129)
FeedbackInsert ==
    /\ fb.pc = "idle"
    /\ CountRows(message_feedback) < MaxFeedback
    /\ \E ai_model \in RecordedModels, style \in FeedbackStyles,
          kind \in FeedbackKinds, accepted \in BOOLEAN :
          IF accepted
          THEN /\ message_feedback' =
                     InsertFeedback(message_feedback,
                                    [ai_model_used |-> ai_model,
                                     conversation_style |-> style,
                                     feedback_type |-> kind.feedback_type])
               /\ fb' = [pc |-> "inserted", ai_model |-> ai_model,
                         conversation_style |-> StyleOrDefault(style),
                         feedback_type |-> kind.feedback_type,
                         rating |-> kind.rating]
               /\ lastOp' = [NoOp EXCEPT !.op = "insert_feedback", !.ok = TRUE]
          ELSE /\ UNCHANGED <<message_feedback, fb>>
               /\ lastOp' = [NoOp EXCEPT !.op = "add_message_feedback",
                                         !.ok = HandleWriteFailure.ok,
                                         !.err = HandleWriteFailure.err]
    /\ UNCHANGED <<now, ticks, model_performance, insights, writers>>
    /\ UNCHANGED adapterVars
    /\ UNCHANGED managerVars
    /\ UNCHANGED <<concVars, serviceVars, textVars>>
    /\ UNCHANGED clientVars

\* the rest of add_message_feedback: _update_model_performance (lines 160-227)
\* and the return
FeedbackUpdate ==
    /\ fb.pc = "inserted"
    /\ \E written \in BOOLEAN :
          IF written
          THEN /\ model_performance' =
                     UpdateModelPerformance(model_performance, fb.ai_model,
                                            fb.conversation_style,
                                            fb.feedback_type, fb.rating)
               /\ lastOp' = [NoOp EXCEPT !.op = "add_message_feedback", !.ok = TRUE,
                                         !.b = fb.ai_model,
                                         !.arg = fb.feedback_type]
          ELSE /\ UNCHANGED model_performance
               /\ lastOp' = [NoOp EXCEPT !.op = "add_message_feedback",
                                         !.ok = HandleWriteFailure.ok,
                                         !.err = HandleWriteFailure.err]
    /\ fb' = NoFeedbackCall
    /\ UNCHANGED <<now, ticks, message_feedback, insights, writers>>
    /\ UNCHANGED adapterVars
    /\ UNCHANGED managerVars
    /\ UNCHANGED <<concVars, serviceVars, textVars>>
    /\ UNCHANGED clientVars

FeedbackNext == FeedbackInsert \/ FeedbackUpdate

FeedbackSpec == FeedbackInit /\ [][FeedbackNext]_vars

-----------------------------------------------------------------------------
(* get_best_model_for_style, on the stores that completed feedback calls *)
(* for two backends leave behind                                         *)

BestModelInit ==
    /\ ServiceConstructed
    /\ NoText
    /\ fb = NoFeedbackCall
    /\ insights = NoInsights
    /\ writers = NoWriters
    /\ NoClients
    /\ \E first \in Histories(MaxRowEvents), second \in Histories(MinFeedbackCount),
          other \in {k \in HistoryKinds : k.rating = 0} :
          LET empty == [message_feedback |-> NoRows, model_performance |-> NoRows]
              store == Recorded(Recorded(Recorded(empty, Gemini, "creative", first),
                                         DialoGPT, "creative", second),
                                DialoGPT, None,
                                [i \in 1..MinFeedbackCount |-> other])
          IN  /\ message_feedback = store.message_feedback
              /\ model_performance = store.model_performance

\* FeedbackManager.get_best_model_for_style
GetBestModelForStyle ==
    /\ lastOp.op # "get_best_model_for_style"
    /\ \E style \in {"creative", "default", "casual"}, answers \in BOOLEAN :
          \E best \in BestModelsForStyle(model_performance, style, answers) :
              lastOp' = [NoOp EXCEPT !.op = "get_best_model_for_style",
                                     !.arg = style, !.ok = answers, !.b = best]
    /\ UNCHANGED <<now, ticks>>
    /\ UNCHANGED adapterVars
    /\ UNCHANGED managerVars
    /\ UNCHANGED <<concVars, serviceVars, textVars, feedbackVars>>
    /\ UNCHANGED clientVars

BestModelNext == GetBestModelForStyle

BestModelSpec == BestModelInit /\ [][BestModelNext]_vars

-----------------------------------------------------------------------------
(* generate_learning_insights, while thumbs_down events are recorded for  *)
(* the pairs of one backend next to a pair that has a history of its own  *)

ThumbsDown == [feedback_type |-> "thumbs_down", rating |-> 0]

InsightsInit ==
    /\ ServiceConstructed
    /\ NoText
    /\ fb = NoFeedbackCall
    /\ insights = NoInsights
    /\ writers = NoWriters
    /\ NoClients
    /\ \E other \in Histories(MinFeedbackCount) :
          LET empty == [message_feedback |-> NoRows, model_performance |-> NoRows]
              store == Recorded(empty, DialoGPT, "creative", other)
          IN  /\ message_feedback = store.message_feedback
              /\ model_performance = store.model_performance

\* a completed add_message_feedback(..., 'thumbs_down', ...) call
RecordThumbsDown ==
    /\ \E ai_model \in RecordedModels, style \in FeedbackStyles :
          LET key == <<ai_model, StyleOrDefault(style)>>
              store == AddMessageFeedback(
                           [message_feedback |-> message_feedback,
                            model_performance |-> model_performance],
                           ai_model, style, ThumbsDown)
          IN  /\ IF key \in DOMAIN model_performance
                 THEN model_performance[key].total_feedback_count < MaxThumbsDown
                 ELSE TRUE
              /\ message_feedback' = store.message_feedback
              /\ model_performance' = store.model_performance
              /\ lastOp' = [NoOp EXCEPT !.op = "add_message_feedback", !.ok = TRUE,
                                        !.b = ai_model, !.arg = "thumbs_down"]
    /\ UNCHANGED <<now, ticks, fb, insights, writers>>
    /\ UNCHANGED adapterVars
    /\ UNCHANGED managerVars
    /\ UNCHANGED <<concVars, serviceVars, textVars>>
    /\ UNCHANGED clientVars

\* FeedbackManager.generate_learning_insights
GenerateLearningInsightsCall ==
    /\ lastOp.op # "generate_learning_insights"
    /\ \E answers \in BOOLEAN :
          /\ insights' = [called |-> TRUE, answers |-> answers,
                          entries |-> GenerateLearningInsights(model_performance,
                                                               answers)]
          /\ lastOp' = [NoOp EXCEPT !.op = "generate_learning_insights",
                                    !.ok = answers]
    /\ UNCHANGED <<now, ticks, message_feedback, model_performance, fb, writers>>
    /\ UNCHANGED adapterVars
    /\ UNCHANGED managerVars
    /\ UNCHANGED <<concVars, serviceVars, textVars>>
    /\ UNCHANGED clientVars

InsightsNext == RecordThumbsDown \/ GenerateLearningInsightsCall

InsightsSpec == InsightsInit /\ [][InsightsNext]_vars

-----------------------------------------------------------------------------
(* add_message_feedback for conversations that are in the store and for *)
(* ones that are not                                                    *)

ReferenceInit ==
    /\ ServiceConstructed
    /\ NoText
    /\ NoFeedback
    /\ messages_table = <<>>
    /\ hist = NoHistoryCalls
    /\ NoLearning
    /\ NoProxy
    /\ conversations \in StoredConversations

\* FeedbackManager.add_message_feedback
AddMessageFeedbackCall ==
    /\ CountRows(message_feedback) < MaxFeedback
    /\ \E conversation_id \in ConversationIds, ai_model \in RecordedModels,
          kind \in {k \in HistoryKinds : k.rating = 0} :
          LET r == AddMessageFeedbackFor(
                       [message_feedback |-> message_feedback,
                        model_performance |-> model_performance],
                       conversations, conversation_id, ai_model, "creative", kind)
          IN  /\ message_feedback' = r.message_feedback
              /\ model_performance' = r.model_performance
              /\ lastOp' = [NoOp EXCEPT !.op = "add_message_feedback",
                                        !.ok = r.ok, !.err = r.err,
                                        !.b = ai_model, !.arg = conversation_id]
    /\ UNCHANGED <<now, ticks, fb, insights, writers>>
    /\ UNCHANGED adapterVars
    /\ UNCHANGED managerVars
    /\ UNCHANGED <<concVars, serviceVars, textVars>>
    /\ UNCHANGED clientVars

ReferenceNext == AddMessageFeedbackCall

ReferenceSpec == ReferenceInit /\ [][ReferenceNext]_vars

-----------------------------------------------------------------------------
(* Feedback of every kind, ratings included, recorded call by call for the *)
(* pairs of one backend                                                    *)

RatingInit ==
    /\ ServiceConstructed
    /\ NoText
    /\ NoFeedback
    /\ messages_table = <<>>
    /\ hist = NoHistoryCalls
    /\ NoLearning
    /\ NoProxy
    /\ conversations = {[id |-> 1, session_id |-> "s1"]}

\* a whole add_message_feedback call for a message of conversation 1
RecordFeedback ==
    /\ CountRows(message_feedback) < MaxFeedback
    /\ \E ai_model \in RecordedModels, style \in FeedbackStyles,
          kind \in FeedbackKinds :
          LET r == AddMessageFeedbackFor(
                       [message_feedback |-> message_feedback,
                        model_performance |-> model_performance],
                       conversations, 1, ai_model, style, kind)
          IN  /\ message_feedback' = r.message_feedback
              /\ model_performance' = r.model_performance
              /\ lastOp' = [NoOp EXCEPT !.op = "add_message_feedback",
                                        !.ok = r.ok, !.err = r.err,
                                        !.b = ai_model,
                                        !.arg = kind.feedback_type]
    /\ UNCHANGED <<now, ticks, fb, insights, writers>>
    /\ UNCHANGED adapterVars
    /\ UNCHANGED managerVars
    /\ UNCHANGED <<concVars, serviceVars, textVars>>
    /\ UNCHANGED clientVars

RatingNext == RecordFeedback

RatingSpec == RatingInit /\ [][RatingNext]_vars

-----------------------------------------------------------------------------
(* add_message_feedback called from several threads: the INSERT of the    *)
(* feedback row, the SELECT of the row of the pair and the UPDATE / INSERT *)
(* of that row are three steps, each on its own                           *)

WriterInit ==
    /\ ServiceConstructed
    /\ NoText
    /\ NoFeedback
    /\ NoClients

\* add_message_feedback up to the first conn.commit() (lines 117-129)
WriterInsert(t) ==
    /\ writers[t].pc = "idle"
    /\ CountRows(message_feedback) < MaxFeedback
    /\ \E ai_model \in RecordedModels, style \in FeedbackStyles,
          kind \in {k \in HistoryKinds : k.rating = 0} :
          /\ message_feedback' =
                InsertFeedback(message_feedback,
                               [ai_model_used |-> ai_model,
                                conversation_style |-> style,
                                feedback_type |-> kind.feedback_type])
          /\ writers' = [writers EXCEPT ![t] =
                            [pc |-> "select", ai_model |-> ai_model,
                             conversation_style |-> StyleOrDefault(style),
                             feedback_type |-> kind.feedback_type,
                             rating |-> kind.rating, current |-> NoRows]]
    /\ lastOp' = [NoOp EXCEPT !.op = "insert_feedback", !.ok = TRUE]
    /\ UNCHANGED model_performance

\* _update_model_performance: the SELECT of the current row (lines 166-171)
WriterSelect(t) ==
    /\ writers[t].pc = "select"
    /\ LET key == <<writers[t].ai_model, writers[t].conversation_style>>
       IN  writers' = [writers EXCEPT
                         ![t].pc = "write",
                         ![t].current =
                             [k \in {key} \cap DOMAIN model_performance |->
                                 model_performance[k]]]
    /\ lastOp' = [NoOp EXCEPT !.op = "select_performance"]
    /\ UNCHANGED <<message_feedback, model_performance>>

\* _update_model_performance: the UPDATE with the values computed from the
\* row that was read, or the INSERT of a new row and its UNIQUE(ai_model,
\* conversation_style) conflict (lines 173-221), and the return
WriterWrite(t) ==
    /\ writers[t].pc = "write"
    /\ LET key == <<writers[t].ai_model, writers[t].conversation_style>>
           computed == UpdateModelPerformance(writers[t].current, key[1], key[2],
                                              writers[t].feedback_type,
                                              writers[t].rating)
           conflict == writers[t].current = NoRows
                           /\ key \in DOMAIN model_performance
       IN  IF conflict
           THEN /\ UNCHANGED model_performance
                /\ lastOp' = [NoOp EXCEPT !.op = "add_message_feedback",
                                          !.ok = HandleWriteFailure.ok,
                                          !.err = HandleWriteFailure.err]
           ELSE /\ model_performance' =
                      [k \in DOMAIN model_performance \cup {key} |->
                          IF k = key THEN computed[key] ELSE model_performance[k]]
                /\ lastOp' = [NoOp EXCEPT !.op = "add_message_feedback",
                                          !.ok = TRUE, !.b = key[1],
                                          !.arg = writers[t].feedback_type]
    /\ writers' = [writers EXCEPT ![t] = IdleWriter]
    /\ UNCHANGED message_feedback

WriterNext ==
    /\ \E t \in 1..NThreads : WriterInsert(t) \/ WriterSelect(t) \/ WriterWrite(t)
    /\ UNCHANGED <<now, ticks, fb, insights>>
    /\ UNCHANGED adapterVars
    /\ UNCHANGED managerVars
    /\ UNCHANGED <<concVars, serviceVars, textVars>>
    /\ UNCHANGED clientVars

WriterSpec == WriterInit /\ [][WriterNext]_vars

-----------------------------------------------------------------------------
(* LearningService over a feedback store: the selection cache *)

\* seconds between two calls of one LearningService
CacheSteps == {151, 300}

LearningInit ==
    /\ ServiceConstructed
    /\ NoText
    /\ fb = NoFeedbackCall
    /\ insights = NoInsights
    /\ writers = NoWriters
    /\ NoClients
    /\ \E n \in {MinFeedbackCount - 1, MinFeedbackCount} :
          LET empty == [message_feedback |-> NoRows, model_performance |-> NoRows]
              up == CHOOSE k \in HistoryKinds : k.feedback_type = "thumbs_up"
              store == Recorded(empty, Gemini, "creative", [i \in 1..n |-> up])
          IN  /\ message_feedback = store.message_feedback
              /\ model_performance = store.model_performance

\* time.time() moves on between two calls
LearningTick ==
    /\ ticks < MaxTicks
    /\ \E d \in CacheSteps : now' = now + d
    /\ ticks' = ticks + 1
    /\ lastOp' = [NoOp EXCEPT !.op = "tick"]
    /\ UNCHANGED adapterVars
    /\ UNCHANGED managerVars
    /\ UNCHANGED <<concVars, serviceVars, textVars, feedbackVars>>
    /\ UNCHANGED <<historyVars, learningVars, proxyVars>>

\* LearningService.get_optimal_model
GetOptimalModelCall ==
    /\ \E style \in LearningStyles, available_models \in AvailableChoices,
          answers \in BOOLEAN :
          LET r == GetOptimalModel(model_cache, cache_timestamp, now,
                                   model_performance, style, available_models,
                                   answers)
              cache_key == CacheKey(style, available_models)
          IN  \E selected_model \in r.models :
                /\ model_cache' =
                      IF r.served THEN model_cache
                      ELSE [k \in DOMAIN model_cache \cup {cache_key} |->
                               IF k = cache_key
                               THEN [model |-> selected_model, computed_at |-> now]
                               ELSE model_cache[k]]
                /\ cache_timestamp' = r.timestamp
                /\ optimal' = [called |-> TRUE, key |-> cache_key,
                               served |-> r.served, model |-> selected_model,
                               computed_at |-> r.computed_at, at |-> now]
                /\ lastOp' = [NoOp EXCEPT !.op = "get_optimal_model",
                                          !.arg = style, !.ok = answers,
                                          !.b = selected_model]
    /\ UNCHANGED <<now, ticks>>
    /\ UNCHANGED adapterVars
    /\ UNCHANGED managerVars
    /\ UNCHANGED <<concVars, serviceVars, textVars, feedbackVars>>
    /\ UNCHANGED <<historyVars, proxyVars>>

\* LearningService.record_model_performance: self.model_cache.clear()
RecordModelPerformance ==
    /\ model_cache # NoCache
    /\ model_cache' = NoCache
    /\ lastOp' = [NoOp EXCEPT !.op = "record_model_performance"]
    /\ UNCHANGED <<now, ticks, cache_timestamp, optimal>>
    /\ UNCHANGED adapterVars
    /\ UNCHANGED managerVars
    /\ UNCHANGED <<concVars, serviceVars, textVars, feedbackVars>>
    /\ UNCHANGED <<historyVars, proxyVars>>

LearningNext ==
    \/ LearningTick
    \/ GetOptimalModelCall
    \/ RecordModelPerformance

LearningSpec == LearningInit /\ [][LearningNext]_vars

-----------------------------------------------------------------------------
(* LLMProxy.send_message over the histories of a chat *)

ProxyInit ==
    /\ ServiceConstructed
    /\ NoText
    /\ NoFeedback
    /\ NoHistory
    /\ NoLearning
    /\ \E history \in ProxyHistories : proxy = [NoSent EXCEPT !.history = history]

\* get_llm_reply(history): llm_proxy.send_message(history)
GetLlmReply ==
    /\ ~proxy.called
    /\ \E outcome \in PostOutcomes :
          LET r == SendMessage(proxy.history, outcome)
          IN  /\ proxy' = [called |-> TRUE, history |-> proxy.history,
                           requested |-> r.requested, contents |-> r.contents,
                           reply |-> r.reply]
              /\ lastOp' = [NoOp EXCEPT !.op = "send_message", !.ok = r.requested,
                                        !.arg = IF r.requested THEN outcome
                                                ELSE None]
    /\ UNCHANGED <<now, ticks>>
    /\ UNCHANGED adapterVars
    /\ UNCHANGED managerVars
    /\ UNCHANGED <<concVars, serviceVars, textVars, feedbackVars>>
    /\ UNCHANGED <<historyVars, learningVars>>

ProxyNext == GetLlmReply

ProxySpec == ProxyInit /\ [][ProxyNext]_vars

-----------------------------------------------------------------------------
(* ChatHistoryService called from several threads: every call starts with *)
(* start_or_resume_conversation, whose lookup, INSERT and second lookup   *)
(* are three transactions                                                 *)

HistoryInit ==
    /\ ServiceConstructed
    /\ NoText
    /\ NoFeedback
    /\ NoClients

\* what is written when a call returns the conversation to its caller
Returning(t, conversation_id) ==
    [hist EXCEPT !.thread[t] = IdleCall,
                 !.returned = @ \cup {<<hist.thread[t].session_id, conversation_id>>}]

\* a call of ChatHistoryService starts
HistoryBegin(t) ==
    /\ hist.thread[t].pc = "idle"
    /\ hist.started < MaxHistoryCalls
    /\ \E op \in HistoryOps, session_id \in Sessions :
          /\ hist' = [hist EXCEPT !.thread[t] = [pc |-> "lookup", op |-> op,
                                                 session_id |-> session_id,
                                                 conversation |-> NoConversation],
                                  !.started = @ + 1]
          /\ lastOp' = [NoOp EXCEPT !.op = op, !.arg = session_id]
    /\ UNCHANGED <<conversations, messages_table>>

\* start_or_resume_conversation: get_conversation_by_session (line 65) and
\* the return of the conversation that is there (lines 67-69)
HistoryLookup(t) ==
    /\ hist.thread[t].pc = "lookup"
    /\ \E found \in ConversationsOfSession(conversations, hist.thread[t].session_id) :
          hist' = IF found = NoConversation
                  THEN [hist EXCEPT !.thread[t].pc = "create"]
                  ELSE IF hist.thread[t].op = "start_or_resume_conversation"
                  THEN Returning(t, found)
                  ELSE [hist EXCEPT !.thread[t].pc = "add",
                                    !.thread[t].conversation = found]
    /\ lastOp' = [NoOp EXCEPT !.op = "get_conversation_by_session"]
    /\ UNCHANGED <<conversations, messages_table>>

\* start_or_resume_conversation: create_conversation (lines 72-76)
HistoryCreate(t) ==
    /\ hist.thread[t].pc = "create"
    /\ LET r == CreateConversation(conversations, hist.thread[t].session_id)
       IN  /\ conversations' = r.table
           /\ lastOp' = [NoOp EXCEPT !.op = "create_conversation",
                                     !.ok = r.table # conversations]
    /\ hist' = [hist EXCEPT !.thread[t].pc = "created",
                            !.conflicted =
                                @ \/ \E c \in conversations :
                                         c.session_id = hist.thread[t].session_id]
    /\ UNCHANGED messages_table

\* start_or_resume_conversation: the second get_conversation_by_session
\* (line 79) and the return
HistoryCreated(t) ==
    /\ hist.thread[t].pc = "created"
    /\ \E found \in ConversationsOfSession(conversations, hist.thread[t].session_id) :
          hist' = IF hist.thread[t].op = "start_or_resume_conversation"
                  THEN Returning(t, found)
                  ELSE [hist EXCEPT !.thread[t].pc = "add",
                                    !.thread[t].conversation = found]
    /\ lastOp' = [NoOp EXCEPT !.op = "get_conversation_by_session"]
    /\ UNCHANGED <<conversations, messages_table>>

\* add_user_message / add_assistant_message: add_message and the return
HistoryAdd(t) ==
    /\ hist.thread[t].pc = "add"
    /\ messages_table' = AddMessage(messages_table, hist.thread[t].conversation,
                                    RoleOf(hist.thread[t].op), now)
    /\ hist' = Returning(t, hist.thread[t].conversation)
    /\ lastOp' = [NoOp EXCEPT !.op = "add_message"]
    /\ UNCHANGED conversations

HistoryNext ==
    /\ \E t \in 1..NThreads :
          \/ HistoryBegin(t)
          \/ HistoryLookup(t)
          \/ HistoryCreate(t)
          \/ HistoryCreated(t)
          \/ HistoryAdd(t)
    /\ UNCHANGED <<now, ticks>>
    /\ UNCHANGED adapterVars
    /\ UNCHANGED managerVars
    /\ UNCHANGED <<concVars, serviceVars, textVars, feedbackVars>>
    /\ UNCHANGED <<learningVars, proxyVars>>

HistorySpec == HistoryInit /\ [][HistoryNext]_vars

-----------------------------------------------------------------------------
(* One caller appends messages to its sessions and reads them back, while *)
(* the clock of CURRENT_TIMESTAMP goes on                                 *)

OrderInit == HistoryInit

\* a second passes
Second ==
    /\ ticks < MaxTicks
    /\ now' = now + 1
    /\ ticks' = ticks + 1
    /\ lastOp' = [NoOp EXCEPT !.op = "tick"]
    /\ UNCHANGED historyVars

\* a whole add_user_message / add_assistant_message call
AppendMessage ==
    /\ hist.started < MaxHistoryCalls
    /\ \E op \in HistoryOps \ {"start_or_resume_conversation"},
          session_id \in Sessions :
          LET found == ConversationsOfSession(conversations, session_id)
              created == IF found = {NoConversation}
                         THEN CreateConversation(conversations, session_id)
                         ELSE [table |-> conversations, ids |-> found]
          IN  \E conversation_id \in created.ids :
                  /\ conversations' = created.table
                  /\ messages_table' = AddMessage(messages_table, conversation_id,
                                                  RoleOf(op), now)
                  /\ hist' = [hist EXCEPT
                                 !.started = @ + 1,
                                 !.returned = @ \cup {<<session_id, conversation_id>>}]
                  /\ lastOp' = [NoOp EXCEPT !.op = op, !.arg = session_id]
    /\ UNCHANGED <<now, ticks>>

\* ChatHistoryService.get_conversation_history
GetConversationHistory ==
    /\ lastOp.op # "get_conversation_history"
    /\ \E session_id \in Sessions :
          \E conversation_id \in ConversationsOfSession(conversations, session_id) :
              \E rows \in (IF conversation_id = NoConversation THEN {<<>>}
                            ELSE GetConversationMessages(messages_table,
                                                         conversation_id)) :
                  /\ hist' = [hist EXCEPT !.history = rows]
                  /\ lastOp' = [NoOp EXCEPT !.op = "get_conversation_history",
                                            !.arg = session_id]
    /\ UNCHANGED <<now, ticks, conversations, messages_table>>

OrderNext ==
    /\ Second \/ AppendMessage \/ GetConversationHistory
    /\ UNCHANGED adapterVars
    /\ UNCHANGED managerVars
    /\ UNCHANGED <<concVars, serviceVars, textVars, feedbackVars>>
    /\ UNCHANGED <<learningVars, proxyVars>>

OrderSpec == OrderInit /\ [][OrderNext]_vars

-----------------------------------------------------------------------------
(* Claims about one adapter's quota (checked under Spec) *)

\* C5: once more than 24 h have elapsed since the previous reset of the daily
\* counter, the next check_rate_limit() restores rate_limit_remaining to the
\* daily limit, whatever requests were made in between.
C5_DailyRolloverFromLastReset ==
    (lastOp.op = "check_rate_limit" /\ lastOp.overdue)
        => strategy[lastOp.b].rate_limit_remaining = FreeTierLimit(lastOp.b)

\* C6: a check_rate_limit() on an adapter whose last_request_time is more than
\* 24 h old sets rate_limit_remaining to free_tier_limit and usage_count to 0
\* before it evaluates the limit, so the adapter is usable again.
C6_StaleAdapterIsReset ==
    (lastOp.op = "check_rate_limit" /\ lastOp.stale)
        => /\ strategy[lastOp.b].rate_limit_remaining = FreeTierLimit(lastOp.b)
           /\ strategy[lastOp.b].usage_count = 0
           /\ lastOp.ok

\* an exhausted adapter was checked after more than 24 h without requests
C6_Witness ==
    /\ lastOp.op = "check_rate_limit"
    /\ lastOp.stale
    /\ lastOp.pre.rate_limit_remaining = 0
    /\ lastOp.pre.usage_count = FreeTierLimit(lastOp.b)

\* C7: with one request at a time, rate_limit_remaining is never negative.
C7_RemainingNeverNegative ==
    \A b \in DOMAIN strategy : strategy[b].rate_limit_remaining >= 0

\* a request was rejected on an exhausted quota after an earlier daily reset
C7_Witness ==
    /\ lastOp.op = "generate_response"
    /\ ~lastOp.sent
    /\ strategy[lastOp.b].rate_limit_remaining = 0
    /\ lastReset[lastOp.b] > StartTime

-----------------------------------------------------------------------------
(* Claims about generate_with_fallback (checked under FallbackSpec) *)

Served(e) == e.valid /\ e.within /\ e.outcome = "ok"

Position(s, x) == CHOOSE i \in 1..Len(s) : s[i] = x

\* C1: a backend whose check_rate_limit() is false when its turn comes in the
\* candidate loop does not get its generate_response invoked during that call.
C1_RateLimitedNeverInvoked ==
    \A i \in 1..Len(trace) :
        ~trace[i].within => ~Contains(invoked, trace[i].name)

\* a validated but rate-limited candidate was passed over and a later one served
C1_Witness ==
    /\ pc = "done"
    /\ response.success
    /\ \E i \in 1..Len(trace) : trace[i].valid /\ ~trace[i].within

\* C2: when a registered backend validates, is within its limits and generates
\* successfully throughout the call, generate_with_fallback returns success and
\* never the terminal "none" result, whatever the other backends do (failing
\* validation, rate-limited, failing or raising); and the call terminates:
\* every step of the loop returns or moves on to the next candidate of a
\* finite list.
C2_ReliableBackendServes ==
    /\ [](pc = "done" /\ call.usable
            => response.success /\ response.model_used # "none")
    /\ [](pc = "try" => call.idx <= Len(call.models_to_try) + 1)
    /\ [][pc = "try" => \/ pc' = "done"
                        \/ pc' = "try" /\ call'.idx = call.idx + 1]_vars

\* the reliable backend served after an earlier candidate raised an exception
C2_Witness ==
    /\ pc = "done"
    /\ call.usable
    /\ response.success
    /\ response.model_used = call.reliable
    /\ \E i \in 1..Len(trace) : trace[i].outcome = "raises"

\* C3: the candidates are the preferred model (if registered), then the default
\* (if not already listed), then the other available models in registration
\* order; they are tried in that order, each at most once; a successful
\* response comes from the first candidate that validates, is within its limits
\* and generates successfully, and nothing after it is tried.
C3_OrderAndFirstSuccess ==
    pc \in {"try", "done"} =>
        LET order == call.models_to_try
            pref == call.preferred_model
            hasPref == Contains(models, pref)
            head == (IF hasPref THEN <<pref>> ELSE <<>>)
                      \o (IF default_model # None /\ (~hasPref \/ default_model # pref)
                          THEN <<default_model>> ELSE <<>>)
            rest == SubSeq(order, Len(head) + 1, Len(order))
            n == Len(trace)
            Passed(e) == e.valid /\ e.within
        IN  /\ Len(order) >= Len(head)
            /\ SubSeq(order, 1, Len(head)) = head
            /\ Range(rest) = call.available \ Range(head)
            /\ \A i, j \in 1..Len(rest) :
                  i < j => Position(models, rest[i]) < Position(models, rest[j])
            /\ n <= Len(order)
            /\ \A i \in 1..n : trace[i].name = order[i]
            /\ Len(invoked) = Cardinality({i \in 1..n : Passed(trace[i])})
            /\ \A k \in 1..Len(invoked) :
                  \E i \in 1..n :
                     /\ Passed(trace[i]) /\ trace[i].name = invoked[k]
                     /\ Cardinality({j \in 1..i : Passed(trace[j])}) = k
            /\ \A i \in 1..(n - 1) : ~Served(trace[i])
            /\ pc = "try" => (n = call.idx - 1 /\ \A i \in 1..n : ~Served(trace[i]))
            /\ (pc = "done" /\ response.success) =>
                  /\ n >= 1 /\ Served(trace[n])
                  /\ response.model_used = trace[n].name
            /\ (pc = "done" /\ ~response.success) =>
                  /\ n = Len(order)
                  /\ \A i \in 1..n : ~Served(trace[i])
                  /\ response.model_used = "none"

\* preferred, default and a third model were tried in that order; the third served
C3_Witness ==
    /\ pc = "done"
    /\ response.success
    /\ call.models_to_try = <<BlenderBot, DialoGPT, Gemini>>
    /\ call.preferred_model = BlenderBot
    /\ default_model = DialoGPT
    /\ response.model_used = Gemini
    /\ invoked = <<DialoGPT, Gemini>>

\* C4: a request that is turned away at the local rate-limit check consumes
\* nothing: when the loop skips a candidate, or generate_response finds
\* check_rate_limit false, no provider request is sent, usage_count does not
\* grow, rate_limit_remaining does not shrink, no timestamp is appended, and
\* generate_response answers success=false with a rate-limit error.
C4_RejectedRequestConsumesNothing ==
    [][ ( \/ (lastOp'.op = "try" /\ lastOp'.arg \in {"invalid", "rate_limited"})
          \/ (lastOp'.op = "generate_response" /\ lastOp'.limited) )
        => /\ ~lastOp'.sent
           /\ strategy'[lastOp'.b].usage_count <= strategy[lastOp'.b].usage_count
           /\ strategy'[lastOp'.b].rate_limit_remaining
                 >= strategy[lastOp'.b].rate_limit_remaining
           /\ Len(strategy'[lastOp'.b].request_timestamps)
                 <= Len(strategy[lastOp'.b].request_timestamps)
           /\ Range(strategy'[lastOp'.b].request_timestamps)
                 \subseteq Range(strategy[lastOp'.b].request_timestamps)
           /\ (lastOp'.op = "try" => invoked' = invoked)
           /\ (lastOp'.op = "generate_response"
                 => ~lastOp'.ok /\ lastOp'.err = "Rate limit exceeded")
      ]_vars

\* an adapter that had already served a request turned the next one away
C4_Witness ==
    /\ lastOp.op = "generate_response"
    /\ lastOp.limited
    /\ ~lastOp.ok
    /\ lastOp.pre.usage_count > 0

-----------------------------------------------------------------------------
(* Claims about the registry (checked under RegistrySpec) *)

\* C9: default_model is None exactly when nothing is registered and otherwise
\* names a registered model; the first registration becomes the default, a
\* later one replaces it only with is_default; set_preferred_model with an
\* unregistered name returns False and leaves the default unchanged.
C9_DefaultModelDiscipline ==
    [][ /\ (default_model' = None) <=> (models' = <<>>)
        /\ default_model' # None => Contains(models', default_model')
        /\ lastOp'.op = "register_model" =>
              default_model' = IF models = <<>> \/ lastOp'.arg = "is_default"
                               THEN lastOp'.b ELSE default_model
        /\ lastOp'.op = "set_preferred_model" =>
              IF Contains(models, lastOp'.b)
              THEN lastOp'.ok /\ default_model' = lastOp'.b
              ELSE ~lastOp'.ok /\ default_model' = default_model
      ]_vars

\* a later registration without is_default left the earlier default in place
C9_Witness ==
    /\ lastOp.op = "register_model"
    /\ lastOp.arg = "not_default"
    /\ Len(models) = 3
    /\ default_model # lastOp.b

-----------------------------------------------------------------------------
(* Claims about concurrent callers (checked under ConcSpec) *)

InWindowCount(b) ==
    Cardinality({i \in 1..Len(strategy[b].request_timestamps) :
                    now - strategy[b].request_timestamps[i] < SubWindow(b)})

QuotaExceeded(b) ==
    \/ strategy[b].rate_limit_remaining < 0
    \/ InWindowCount(b) > SubWindowLimit(b)

\* C8: without a lock two interleaved generate_response calls can both pass
\* check_rate_limit on the last unit of quota, exceed the quota and drive
\* rate_limit_remaining negative; as long as calls never overlap, no such
\* state is reachable.
C8_QuotaExceededOnlyByOverlap ==
    \A b \in DOMAIN strategy : QuotaExceeded(b) => overlapped

\* both threads passed the check on the last unit and both were charged
C8_Witness ==
    /\ overlapped
    /\ \A t \in Threads : thread[t] = "idle"
    /\ \E b \in DOMAIN strategy :
          /\ strategy[b].rate_limit_remaining < 0
          /\ strategy[b].usage_count > FreeTierLimit(b)

-----------------------------------------------------------------------------
(* Claims about the orchestrator (checked under ServiceSpec) *)

\* C10: generate_with_fallback is invoked with the caller's temperature
\* override (with the style's default when there is none), and an override
\* does not by itself make the request fail: when the registry would serve
\* the request, the service returns success.
C10_OverrideReachesRegistry ==
    svc.called =>
        /\ svc.passed =
              << IF "temperature" \in DOMAIN svc.kwargs
                 THEN svc.kwargs.temperature ELSE StyleTemperature(svc.style) >>
        /\ svc.registry.kind = "served" => svc.response.success

\* C11: generate_response never raises to its caller: whatever the input and
\* whatever the registry does (its generate_with_fallback raising included),
\* a result object is returned, and when an exception occurred inside the
\* method the result has success = false, model_used "none" and an error
\* message.
C11_NeverRaises ==
    svc.called =>
        /\ ~svc.raised
        /\ svc.response # NoResponse
        /\ svc.excepted =>
              /\ ~svc.response.success
              /\ svc.response.model_used = "none"
              /\ svc.response.error_message # None

C11_Witness ==
    /\ svc.called
    /\ svc.registry.kind = "raises"
    /\ svc.passed # <<>>
    /\ svc.excepted
    /\ svc.response = ServiceError

\* C12: after n calls of generate_response (successes, failed responses and
\* internal exceptions mixed), total_requests = n, successful_requests +
\* failed_requests = total_requests, and successful_requests is the number of
\* calls that returned success.
C12_CountersConsistent ==
    /\ usage_analytics.total_requests = svc.n
    /\ usage_analytics.successful_requests + usage_analytics.failed_requests
          = usage_analytics.total_requests
    /\ usage_analytics.successful_requests = svc.successes

C12_Witness ==
    /\ svc.n = 3
    /\ usage_analytics.successful_requests = 1
    /\ usage_analytics.failed_requests = 2
    /\ svc.excepted
    /\ usage_analytics.average_response_time # Zero

\* C13: the running average response time is updated on every call, the
\* calls that end in the except branch included: after every call,
\* average_response_time * total_requests is the sum of the elapsed times of
\* all the calls made so far.
C13_AverageCoversEveryCall ==
    svc.called =>
        usage_analytics.average_response_time.num * usage_analytics.total_requests
            = svc.elapsed_sum * usage_analytics.average_response_time.den

-----------------------------------------------------------------------------
(* Claims about the style engine (checked under StyleSpec) *)

SystemTurns(messages) ==
    {i \in 1..Len(messages) : messages[i].role = "system"}

\* the style's system turn, followed by the original turns in order
Injected(messages, style, result) ==
    /\ Len(result) = Len(messages) + 1
    /\ result[1] = [role |-> "system", content |-> PromptPrefix(style)]
    /\ \A i \in 1..Len(messages) : result[i + 1] = messages[i]
    /\ SystemTurns(result) = {1}

\* C14 (as stated): for every message list with at most one turn (zero or
\* one) the result is the list with exactly one system turn prepended, whose
\* content is the style's prompt prefix; for every list with two or more turns
\* the result is the list unchanged.
C14_InjectsUpToOneTurn ==
    styled.called =>
        IF Len(styled.messages) <= 1
        THEN Injected(styled.messages, styled.style, styled.result)
        ELSE styled.result = styled.messages

\* C14 (amended): for every message list with exactly one turn the result is
\* the list with exactly one system turn prepended, whose content is the
\* style's prompt prefix; for the empty list and for every list with two or
\* more turns the result is the list unchanged (no system turn added).
C14_InjectsAtFirstTurnOnly ==
    styled.called =>
        IF Len(styled.messages) = 1
        THEN Injected(styled.messages, styled.style, styled.result)
        ELSE /\ styled.result = styled.messages
             /\ SystemTurns(styled.result) = {}

C14_Witness ==
    /\ styled.called
    /\ Len(styled.messages) = 1
    /\ Len(styled.result) = 2
    /\ styled.result[1].role = "system"

-----------------------------------------------------------------------------
(* Claims about post-processing (checked under PostProcessSpec) *)

\* C15: post-processing is idempotent: for every style and every content,
\* _post_process_response applied to its own output gives the same string as
\* applying it once.
C15_PostProcessIdempotent ==
    processed.called => processed.twice = processed.once

-----------------------------------------------------------------------------
(* Claims about the feedback store (checked under FeedbackSpec) *)

\* the committed FeedbackRecords of a (backend, style) pair
RecordsOf(key) ==
    LET rows == {r \in DOMAIN message_feedback :
                    /\ r.ai_model_used = key[1]
                    /\ StyleOrDefault(r.conversation_style) = key[2]}
    IN  CountRows([r \in rows |-> message_feedback[r]])

PerformanceKeys ==
    {<<m, StyleOrDefault(st)>> : m \in FeedbackModels, st \in FeedbackStyles}

\* C16: recording feedback is atomic: in no reachable state, neither after a
\* failure of the performance update nor between the two writes, is there a
\* committed FeedbackRecord whose effect is missing from the ModelPerformance
\* row of its pair: the row of every pair counts all the committed records of
\* the pair.
C16_FeedbackAtomic ==
    \A key \in PerformanceKeys :
        RecordsOf(key) =
            IF key \in DOMAIN model_performance
            THEN model_performance[key].total_feedback_count ELSE 0

\* C17: after any sequence of add_message_feedback calls, every
\* ModelPerformance row has 0 <= performance_score <= 1.
C17_ScoreInUnitInterval ==
    \A key \in DOMAIN model_performance :
        LET score == model_performance[key].performance_score
        IN  /\ score.den > 0
            /\ 0 <= score.num
            /\ score.num <= score.den

C17_Witness ==
    \E key \in DOMAIN model_performance :
        LET row == model_performance[key]
        IN  /\ row.total_feedback_count >= EngagementCap
            /\ row.positive_feedback_count >= 1
            /\ row.negative_feedback_count >= 1
            /\ row.avg_rating.num > 3 * row.avg_rating.den
            /\ 2 * row.performance_score.num > row.performance_score.den

\* the update of add_message_feedback for one more event of this type on a
\* pair that has a row
UpdatesRowWith(feedback_type) ==
    /\ fb.pc = "inserted"
    /\ fb.feedback_type = feedback_type
    /\ <<fb.ai_model, fb.conversation_style>> \in DOMAIN model_performance

\* C18: recording a thumbs_down never increases the performance_score of its
\* pair: the score after the update is at most the score before.
C18_ThumbsDownNeverIncreases ==
    [][UpdatesRowWith("thumbs_down") =>
          LET key == <<fb.ai_model, fb.conversation_style>>
          IN  LessEq(model_performance'[key].performance_score,
                     model_performance[key].performance_score)]_vars

\* C19: recording a thumbs_up never decreases the performance_score of its
\* pair: the score after the update is at least the score before.
C19_ThumbsUpNeverDecreases ==
    [][UpdatesRowWith("thumbs_up") =>
          LET key == <<fb.ai_model, fb.conversation_style>>
          IN  LessEq(model_performance[key].performance_score,
                     model_performance'[key].performance_score)]_vars

\* a thumbs_up has just been recorded on a row that had a thumbs_down and a
\* rating before
C19_Witness ==
    /\ lastOp.op = "add_message_feedback"
    /\ lastOp.ok
    /\ lastOp.arg = "thumbs_up"
    /\ \E key \in DOMAIN model_performance :
          /\ DOMAIN model_performance = {key}
          /\ model_performance[key].positive_feedback_count >= 1
          /\ model_performance[key].negative_feedback_count >= 1
          /\ model_performance[key].total_feedback_count = RecordsOf(key)
          /\ model_performance[key].total_feedback_count >= 3

-----------------------------------------------------------------------------
(* Claims about get_best_model_for_style (checked under BestModelSpec) *)

\* the backends with at least 3 feedback events for the style
Qualified(style) ==
    {m \in FeedbackModels :
        /\ <<m, style>> \in DOMAIN model_performance
        /\ model_performance[<<m, style>>].total_feedback_count >= 3}

\* C20: get_best_model_for_style(style), when its query is answered, returns
\* None whenever every row of the style has fewer than 3 feedback events,
\* whatever the scores; otherwise it returns a backend with at least 3
\* feedback events for the style whose performance_score is the maximum among
\* such backends, and among those of maximum score one with the largest
\* feedback count.
C20_BestModelForStyle ==
    (lastOp.op = "get_best_model_for_style" /\ lastOp.ok) =>
        LET style == lastOp.arg
            best == lastOp.b
        IN  IF Qualified(style) = {}
            THEN best = None
            ELSE /\ best \in Qualified(style)
                 /\ \A m \in Qualified(style) :
                       LET mine == model_performance[<<best, style>>]
                           theirs == model_performance[<<m, style>>]
                       IN  /\ theirs.performance_score.num * mine.performance_score.den
                                <= mine.performance_score.num * theirs.performance_score.den
                           /\ theirs.performance_score = mine.performance_score
                                => theirs.total_feedback_count
                                       <= mine.total_feedback_count

\* two backends qualify, and the one returned has the higher score although
\* it has fewer feedback events; a row of another style scores higher still
C20_Witness ==
    /\ lastOp.op = "get_best_model_for_style"
    /\ lastOp.ok
    /\ lastOp.arg = "creative"
    /\ Qualified("creative") = FeedbackModels
    /\ \E m \in FeedbackModels :
          /\ m # lastOp.b
          /\ model_performance[<<m, "creative">>].total_feedback_count
                > model_performance[<<lastOp.b, "creative">>].total_feedback_count
          /\ model_performance[<<m, "creative">>].performance_score
                # model_performance[<<lastOp.b, "creative">>].performance_score
    /\ ~LessEq(model_performance[<<DialoGPT, "default">>].performance_score,
               model_performance[<<lastOp.b, "creative">>].performance_score)

-----------------------------------------------------------------------------
(* Claims about generate_learning_insights (checked under InsightsSpec) *)

\* the committed FeedbackRecords of a pair that are of this type
RecordsOfType(key, feedback_type) ==
    LET rows == {r \in DOMAIN message_feedback :
                    /\ r.ai_model_used = key[1]
                    /\ StyleOrDefault(r.conversation_style) = key[2]
                    /\ r.feedback_type = feedback_type}
    IN  CountRows([r \in rows |-> message_feedback[r]])

\* the entries of this severity that the last call returned for a pair
EntriesFor(key, severity) ==
    {e \in insights.entries :
        e.model = key[1] /\ e.style = key[2] /\ e.severity = severity}

\* C21: for a pair whose k >= 1 feedback events are all thumbs_down, the
\* list an answered generate_learning_insights() returns has exactly one
\* entry of severity "high" for the pair when k >= 5 and none when k < 5,
\* and an entry of severity "medium" (insufficient data) exactly when k < 3.
C21_ThumbsDownOnlyFlagged ==
    (lastOp.op = "generate_learning_insights" /\ lastOp.ok) =>
        \A key \in PerformanceKeys :
            LET k == RecordsOf(key)
            IN  (k >= 1 /\ RecordsOfType(key, "thumbs_down") = k) =>
                    /\ Cardinality(EntriesFor(key, "high"))
                          = IF k >= 5 THEN 1 ELSE 0
                    /\ (EntriesFor(key, "medium") # {}) <=> (k < 3)
                    /\ \A e \in EntriesFor(key, "medium") :
                          e.type = "insufficient_data"
                    /\ \A e \in EntriesFor(key, "high") :
                          e.type = "underperforming_model"

\* the list has a "high" entry for a pair with five thumbs_down events, no
\* entry for a pair with four, and a "medium" entry for a pair with two
C21_Witness ==
    /\ lastOp.op = "generate_learning_insights"
    /\ lastOp.ok
    /\ RecordsOfType(<<Gemini, "creative">>, "thumbs_down") = 5
    /\ EntriesFor(<<Gemini, "creative">>, "high") # {}
    /\ RecordsOfType(<<Gemini, "default">>, "thumbs_down") = 4
    /\ EntriesFor(<<Gemini, "default">>, "high") = {}
    /\ EntriesFor(<<Gemini, "default">>, "medium") = {}
    /\ RecordsOfType(<<DialoGPT, "creative">>, "thumbs_down") = 2
    /\ RecordsOf(<<DialoGPT, "creative">>) = 2
    /\ EntriesFor(<<DialoGPT, "creative">>, "medium") # {}

-----------------------------------------------------------------------------
(* Claims about the conversations feedback refers to (checked under *)
(* ReferenceSpec)                                                   *)

\* C22: add_message_feedback never stores a FeedbackRecord for a conversation
\* that does not exist: every message_feedback row references a row of the
\* conversations table.
C22_NoFeedbackForUnknownConversation ==
    \A r \in DOMAIN message_feedback :
        \E c \in conversations : c.id = r.conversation_id

-----------------------------------------------------------------------------
(* Claims about failed writes of the feedback store (checked under *)
(* FeedbackSpec)                                                   *)

\* C23: a feedback-store write failure is non-fatal: when the database fails
\* the feedback insert or the performance update, add_message_feedback
\* returns False to its caller and raises nothing.
C23_WriteFailureReturnsFalse ==
    (lastOp.op = "add_message_feedback" /\ ~lastOp.ok) => lastOp.err = None

-----------------------------------------------------------------------------
(* Claims about conversations and sessions (checked under HistorySpec) *)

\* the session ids for which a call has got as far as its lookup
SessionsUsed ==
    {c.session_id : c \in conversations} \cup {r[1] : r \in hist.returned}

\* C24: there is at most one conversation per session id: after any
\* interleaving of start_or_resume_conversation, add_user_message and
\* add_assistant_message calls, one conversation row exists for each session
\* id that has one or has been returned one, every call for the session has
\* returned the id of that row, distinct sessions have distinct conversations,
\* and every message is stored in a conversation that exists.
C24_OneConversationPerSession ==
    /\ \A session_id \in SessionsUsed :
          /\ Cardinality({c \in conversations : c.session_id = session_id}) = 1
          /\ \A r \in hist.returned :
                r[1] = session_id =>
                    [id |-> r[2], session_id |-> session_id] \in conversations
    /\ \A c, d \in conversations : c.id = d.id => c = d
    /\ \A i \in 1..Len(messages_table) :
          \E c \in conversations : c.id = messages_table[i].conversation_id

\* two calls for the same new session have both gone through
\* create_conversation, the second one into the UNIQUE conflict, and both
\* have returned; another session has a conversation of its own
C24_Witness ==
    /\ lastOp.op = "add_message"
    /\ hist.conflicted
    /\ hist.started = MaxHistoryCalls
    /\ \A t \in 1..NThreads : hist.thread[t].pc = "idle"
    /\ Cardinality(conversations) = 2
    /\ Cardinality(hist.returned) = 2
    /\ Len(messages_table) >= 2
    /\ messages_table[1].conversation_id = messages_table[2].conversation_id
    /\ messages_table[1].role # messages_table[2].role

-----------------------------------------------------------------------------
(* Claims about the order of a history (checked under OrderSpec) *)

-----------------------------------------------------------------------------
(* Claims about avg_rating (checked under RatingSpec) *)

\* the committed rating records of a pair
RatingRecords(key) ==
    {r \in DOMAIN message_feedback :
        /\ r.ai_model_used = key[1]
        /\ StyleOrDefault(r.conversation_style) = key[2]
        /\ r.feedback_type = "rating"}

\* the sum of value(r) * message_feedback[r] over a set of records
RECURSIVE Weighted(_, _)
Weighted(records, value) ==
    IF records = {} THEN 0
    ELSE LET r == CHOOSE x \in records : TRUE
         IN  value[r] * message_feedback[r] + Weighted(records \ {r}, value)

\* avg_rating of the pair is the arithmetic mean of its rating records
MeanOfRatings(key) ==
    LET records == RatingRecords(key)
        total == Weighted(records, [r \in records |-> r.rating])
        count == Weighted(records, [r \in records |-> 1])
    IN  model_performance[key].avg_rating = Fraction(total, count)

\* C26: after any sequence of feedback events with at least one rating event
\* for a pair, avg_rating of the pair equals the arithmetic mean of the
\* rating values, whatever other events were recorded for it.
C26_AvgRatingIsMeanOfRatings ==
    \A key \in DOMAIN model_performance :
        RatingRecords(key) # {} => MeanOfRatings(key)

-----------------------------------------------------------------------------
(* Claims about what a sent request costs (checked under Spec) *)

\* C27: every provider request that an adapter issues inside a daily window
\* is charged to its quota: a generate_response that sends a request, timed
\* out or not, adds one to usage_count, takes one from rate_limit_remaining
\* and leaves the time of the request in the sliding window.
C27_EverySentRequestCharged ==
    [][ (lastOp'.op = "generate_response" /\ lastOp'.sent /\ ~lastOp'.stale)
        => /\ strategy'[lastOp'.b].usage_count
                 = strategy[lastOp'.b].usage_count + 1
           /\ strategy'[lastOp'.b].rate_limit_remaining
                 = strategy[lastOp'.b].rate_limit_remaining - 1
           /\ Contains(strategy'[lastOp'.b].request_timestamps, now)
      ]_vars

-----------------------------------------------------------------------------
(* Claims about concurrent feedback writers (checked under WriterSpec) *)

\* C28: feedback aggregates never drift from the raw records: once the
\* add_message_feedback calls of all threads have ended, the row of every
\* pair counts the stored FeedbackRecords of the pair, and its positive and
\* negative counts are the numbers of thumbs_up and thumbs_down records.
C28_AggregatesMatchRecords ==
    (\A t \in 1..NThreads : writers[t].pc = "idle") =>
        \A key \in PerformanceKeys :
            IF key \in DOMAIN model_performance
            THEN /\ model_performance[key].total_feedback_count = RecordsOf(key)
                 /\ model_performance[key].positive_feedback_count
                       = RecordsOfType(key, "thumbs_up")
                 /\ model_performance[key].negative_feedback_count
                       = RecordsOfType(key, "thumbs_down")
            ELSE RecordsOf(key) = 0

-----------------------------------------------------------------------------
(* Claims about the selection cache (checked under LearningSpec) *)

\* C29: get_optimal_model never serves a cached selection older than its
\* TTL: a value returned from the cache for a (style, available models) key
\* was computed from the feedback store at most cache_ttl (300 s) before the
\* call that returns it.
C29_CachedSelectionWithinTtl ==
    (optimal.called /\ optimal.served) =>
        optimal.at - optimal.computed_at <= CacheTtl

-----------------------------------------------------------------------------
(* Claims about the provider proxy (checked under ProxySpec) *)

\* every message has a role and a content, the first is from the user and
\* the roles take turns
WellFormedConversation(history) ==
    /\ history # <<>>
    /\ \A i \in 1..Len(history) : ValidMessage(history[i])
    /\ history[1].role = "user"
    /\ \A i \in 1..(Len(history) - 1) : history[i + 1].role = OtherRole(history[i].role)

\* C30: send_message forwards every well-formed conversation to the
\* provider: for a history of alternating user/assistant messages that
\* starts with a user message, of any length, a provider request is issued;
\* "Conversation must start with a user message." is returned, without a
\* provider call, only when the history has no valid message or its first
\* valid message is not from the user.
C30_WellFormedConversationForwarded ==
    proxy.called =>
        /\ WellFormedConversation(proxy.history) => proxy.requested
        /\ proxy.reply = MustStartWithUser =>
              /\ ~proxy.requested
              /\ \/ FilterValid(proxy.history) = <<>>
                 \/ FilterValid(proxy.history)[1].role # "user"

=============================================================================
